---- MODULE Spec2Model ----
(***************************************************************************)
(* Verification model of ore_refined: the state monitor (four refreshers   *)
(* and get_snapshot), the Channel A submission with retry                   *)
(* (submit_transaction_with_ixs), the dual-channel deploy pipeline          *)
(* (deploy_with_dual_channel, send_via_jito, send_bundle), the strategy     *)
(* engine (select_squares), the scheduler (auto_mine_optimized: startup,    *)
(* round detection, timing gate, pipeline call, cooldown) and the           *)
(* refresher loops of the original on_chain_main.                           *)
(***************************************************************************)
EXTENDS Integers, Naturals, Sequences, FiniteSets, TLC

VARIABLES
    \* ---- remote ledger (the truth the monitor mirrors)
    remote,        \* [round_id, slot, miner_round]
    \* ---- Monitor (monitor.rs): the four cached entities and their locks
    board,         \* cached Board  [round_id, end_slot]
    clock,         \* cached Clock  [slot]
    miner,         \* cached Miner  [round_id]
    round,         \* cached Round  [id]
    lock,          \* entity -> holder of its tokio Mutex ("free" or a task)
    refPc,         \* entity -> position of its refresher task
    fetched,       \* entity -> value a refresher fetched and has not stored yet
    round_id,      \* the round refresher's local `round_id`
    snapPc,        \* position of the get_snapshot call
    snapshot,      \* the MonitorSnapshot being assembled / returned
    \* ---- history of the monitor (observations, never read by the program)
    lastStore,     \* last write of the round cache: what was stored, and the board then
    cycleFresh,    \* the round refresher's current iteration began after the last change of board.round_id
    cycleElapsed,  \* a full round-refresh iteration elapsed since that change
    okCycleElapsed, \* ... and its fetch succeeded
    \* ---- scheduler loop and deploy_with_dual_channel (main.rs)
    schedPc,       \* position of auto_mine_optimized
    cycle,         \* number of pipeline invocations so far
    dpc,           \* position of deploy_with_dual_channel
    deployResult,  \* what deploy_with_dual_channel returned ("none" while running)
    jito,          \* cycle -> state of the relay task spawned in that cycle (tasks that
                   \* finished before the current iteration began are forgotten)
    log,           \* log entries written since the current scheduler iteration began
    \* ---- submit_transaction_with_ixs (utils.rs)
    subPc,         \* position of the call
    subIx,         \* the instruction it submits ("checkpoint" or "deploy")
    retry_count,   \* its local `retry_count`
    subResult,     \* what it returned
    \* ---- history of the pipeline (observations, never read by the program)
    chanA,         \* instruction -> state of its Channel A submission in this cycle
    attempts,      \* instruction -> send attempts made on Channel A in this cycle
    slept,         \* seconds of backoff slept by the current submit call
    sendFails,     \* failed send attempts of the current submit call
    bhFails,       \* failed blockhash fetches of the current submit call
    lastSend,      \* outcome of the last send attempt of the current submit call
    blockhash,     \* number of the fetch that gave the call's local `blockhash` (0: none yet)
    sentWith,      \* the blockhash of each send attempt of the current submit call, in order
    \* ---- instructions and transactions (main.rs, utils.rs)
    checkpoint_ix, \* deploy_with_dual_channel's local `checkpoint_ix` (NoVal: not built)
    deploy_ix,     \* deploy_with_dual_channel's local `deploy_ix` (NoVal: not built)
    instructions,  \* the `instructions` argument of the running submit call
    relay_tx,      \* the transaction the relay task of this call built (NoVal: none yet)
    \* ---- on_chain_main, the scheduler loop of the original program (src/main.rs)
    origPc,        \* position of on_chain_main's loop
    args,          \* the command line [remaining_slots]
    req_id,        \* the loop's local `req_id`
    slot_left,     \* the iteration's local `slot_left`
    ixs,           \* the iteration's local `ixs` (<<>>: not built)
    simulate_result, \* what the simulation of this iteration reported ("none": not run)
    units_consumed, \* the iteration's local `units_consumed`
    origResult,    \* the error on_chain_main returned ("none" while it runs)
    relay_tasks,   \* number of spawned send_ix_use_jito tasks that have not finished
    \* ---- history of on_chain_main (observations, never read by the program)
    submitted,     \* the transaction Channel A sent in this iteration (NoVal: none)
    spawned,       \* a relay task was spawned in this iteration
    \* ---- auto_mine_optimized: startup, timing gate, strategy (main.rs)
    strategy,      \* the MiningStrategy the process was started with
    last_round_id, \* the loop's local `last_round_id`
    fresh_round,   \* the Round fetched after the gate opened in this iteration
    selected,      \* what select_squares returned in this iteration
    startErr,      \* the error auto_mine_optimized returned during startup ("none" if none)
    \* ---- history of the scheduler (observations, never read by the program)
    readFailed,    \* the initial read that failed ("none" if none)
    invoked,       \* round id -> number of pipeline invocations made for it
    \* ---- get_price_with_retry (price.rs)
    pricePc,       \* position of the call ("idle" when none is running)
    price_max_retries, \* its argument `max_retries`
    retries,       \* its local `retries`
    priceResult,   \* what it returned ("none" while running)
    \* ---- history of the price call (observations, never read by the program)
    waits,         \* the seconds it slept, one entry per sleep
    fetches,       \* number of get_price calls it made
    \* ---- log_balance / get_balance (utils.rs, src/main.rs)
    bal_treasury,  \* the Treasury read [miner_rewards_factor]
    bal_miner,     \* the Miner read [rewards_factor, rewards_ore, refined_ore]
    balanceResult  \* outcome of the call and the refined_ore it reports

pipeVars == <<schedPc, cycle, dpc, deployResult, jito, log, subPc, subIx, retry_count,
              subResult, chanA, attempts, slept, sendFails, bhFails, lastSend>>

monitorOnly == <<remote, board, clock, miner, round, lock, refPc, fetched, round_id,
                 snapPc, lastStore, cycleFresh, cycleElapsed, okCycleElapsed>>

schedVars == <<strategy, last_round_id, fresh_round, selected, startErr, readFailed, invoked>>

priceVars == <<pricePc, price_max_retries, retries, priceResult, waits, fetches>>

balanceVars == <<bal_treasury, bal_miner, balanceResult>>

submitHist == <<blockhash, sentWith>>

ixVars == <<checkpoint_ix, deploy_ix, instructions, relay_tx>>

origVars == <<origPc, args, req_id, slot_left, ixs, simulate_result, units_consumed,
              origResult, relay_tasks, submitted, spawned>>

vars == <<monitorOnly, snapshot, pipeVars, schedVars, priceVars, balanceVars, submitHist, ixVars,
         origVars>>

----------------------------------------------------------------------------
\* Bounds of the model
MaxRound == 2
MaxSlot == 1
RoundLen == 1

Entities == {"board", "clock", "miner", "round"}
NoVal == [none |-> TRUE]

----------------------------------------------------------------------------
\* Remote state reader (utils.rs): what a successful fetch returns

get_board == [round_id |-> remote.round_id, end_slot |-> remote.round_id * RoundLen]
get_clock == [slot |-> remote.slot]
get_miner == [round_id |-> remote.miner_round]
get_round_latest(id) == [id |-> remote.round_id]
get_round(id) == [id |-> id]

FetchOf(e) ==
    CASE e = "board" -> get_board
      [] e = "clock" -> get_clock
      [] e = "miner" -> get_miner
      [] e = "round" -> get_round(round_id)

\* The remote ledger moves on its own.
RemoteTick ==
    /\ remote.slot < MaxSlot
    /\ remote' = [remote EXCEPT !.slot = @ + 1]
    /\ UNCHANGED <<origVars, priceVars, balanceVars, ixVars, submitHist, schedVars, pipeVars, board, clock, miner, round, lock, refPc, fetched, round_id,
                   snapPc, snapshot, lastStore, cycleFresh, cycleElapsed, okCycleElapsed>>

RemoteNewRound ==
    /\ remote.round_id < MaxRound
    /\ remote' = [remote EXCEPT !.round_id = @ + 1]
    /\ UNCHANGED <<origVars, priceVars, balanceVars, ixVars, submitHist, schedVars, pipeVars, board, clock, miner, round, lock, refPc, fetched, round_id,
                   snapPc, snapshot, lastStore, cycleFresh, cycleElapsed, okCycleElapsed>>

RemoteMinerDeploys ==
    /\ remote.miner_round < remote.round_id
    /\ remote' = [remote EXCEPT !.miner_round = remote.round_id]
    /\ UNCHANGED <<origVars, priceVars, balanceVars, ixVars, submitHist, schedVars, pipeVars, board, clock, miner, round, lock, refPc, fetched, round_id,
                   snapPc, snapshot, lastStore, cycleFresh, cycleElapsed, okCycleElapsed>>

----------------------------------------------------------------------------
\* Monitor::start_all: the refreshers

\* `*guard = new_value`: the stored value is replaced wholesale.
ReplaceKeepOld(old, new) == old
Replace(old, new) == new

Cache(e) ==
    CASE e = "board" -> board
      [] e = "clock" -> clock
      [] e = "miner" -> miner
      [] e = "round" -> round

\* The round id the round refresher fetches in an iteration: the cached board's
\* round_id, read anew in every iteration (`previous` is the last one it read).
RoundKeyReadOnce(current, previous) == previous
RoundKey(current, previous) == current

\* The round refresher reads the cached board's round_id under the board lock
\* (the guard is dropped at the end of the block).
RoundRead ==
    /\ refPc["round"] = "read"
    /\ lock["board"] = "free"
    /\ round_id' = RoundKey(board.round_id, round_id)
    /\ refPc' = [refPc EXCEPT !["round"] = "fetch"]
    /\ cycleFresh' = TRUE
    /\ UNCHANGED <<origVars, priceVars, balanceVars, ixVars, submitHist, schedVars, pipeVars, remote, board, clock, miner, round, lock, fetched,
                   snapPc, snapshot, lastStore, cycleElapsed, okCycleElapsed>>

\* `if let Ok(new) = get_x(..).await`: the fetch succeeds with the remote value.
FetchOk(e) ==
    /\ refPc[e] = "fetch"
    /\ fetched' = [fetched EXCEPT ![e] = FetchOf(e)]
    /\ refPc' = [refPc EXCEPT ![e] = "store"]
    /\ UNCHANGED <<origVars, priceVars, balanceVars, ixVars, submitHist, schedVars, pipeVars, remote, board, clock, miner, round, lock, round_id,
                   snapPc, snapshot, lastStore, cycleFresh, cycleElapsed, okCycleElapsed>>

\* `if let Ok(..) = ..` does nothing on Err: the refresher sleeps and starts
\* over, no other task is touched.
fetch_error_aborts(e, pcs) == [x \in Entities |-> "aborted"]
after_fetch_error(e, pcs) == [pcs EXCEPT ![e] = IF e = "round" THEN "read" ELSE "fetch"]

\* The fetch fails: nothing is stored, the refresher sleeps and starts over.
FetchErr(e) ==
    /\ refPc[e] = "fetch"
    /\ refPc' = after_fetch_error(e, refPc)
    /\ cycleElapsed' = IF e = "round" /\ cycleFresh THEN TRUE ELSE cycleElapsed
    /\ UNCHANGED <<origVars, priceVars, balanceVars, ixVars, submitHist, schedVars, pipeVars, remote, board, clock, miner, round, lock, fetched, round_id,
                   snapPc, snapshot, lastStore, cycleFresh, okCycleElapsed>>

\* The refresher takes the entity's lock, replaces the value, drops the guard,
\* sleeps and starts over.
Store(e) ==
    /\ refPc[e] = "store"
    /\ lock[e] = "free"
    /\ LET new == Replace(Cache(e), fetched[e]) IN
        /\ board' = IF e = "board" THEN new ELSE board
        /\ clock' = IF e = "clock" THEN new ELSE clock
        /\ miner' = IF e = "miner" THEN new ELSE miner
        /\ round' = IF e = "round" THEN new ELSE round
        /\ lastStore' = IF e = "round"
                           THEN [id |-> fetched[e].id, read |-> round_id,
                                 board_round_id |-> board.round_id]
                           ELSE lastStore
        /\ IF e = "board" /\ new.round_id # board.round_id
              THEN /\ cycleFresh' = FALSE
                   /\ cycleElapsed' = FALSE
                   /\ okCycleElapsed' = FALSE
              ELSE /\ cycleFresh' = cycleFresh
                   /\ cycleElapsed' = IF e = "round" /\ cycleFresh THEN TRUE ELSE cycleElapsed
                   /\ okCycleElapsed' = IF e = "round" /\ cycleFresh THEN TRUE ELSE okCycleElapsed
    /\ fetched' = [fetched EXCEPT ![e] = NoVal]
    /\ refPc' = [refPc EXCEPT ![e] = IF e = "round" THEN "read" ELSE "fetch"]
    /\ UNCHANGED <<origVars, priceVars, balanceVars, ixVars, submitHist, schedVars, pipeVars, remote, lock, round_id, snapPc, snapshot>>

----------------------------------------------------------------------------
\* Monitor::get_snapshot

\* The four MutexGuards are temporaries of the struct expression that is the
\* tail expression of get_snapshot: none is dropped before the struct is
\* built, so after cloning `e` the call holds the lock of every entity cloned
\* so far.
SnapOrder == <<"board", "clock", "miner", "round">>
GuardsHeldPerStatement(i) == {}
GuardsHeld(i) == {SnapOrder[j] : j \in 1..i}

SnapStart ==
    /\ snapPc = 0
    /\ snapPc' = 1
    /\ snapshot' = [board |-> NoVal, clock |-> NoVal, miner |-> NoVal, round |-> NoVal]
    /\ UNCHANGED <<origVars, priceVars, balanceVars, ixVars, submitHist, schedVars, pipeVars, remote, board, clock, miner, round, lock, refPc, fetched, round_id,
                   lastStore, cycleFresh, cycleElapsed, okCycleElapsed>>

\* `self.<e>.lock().await.clone()`
SnapClone(i) ==
    /\ snapPc = i
    /\ i \in 1..4
    /\ lock[SnapOrder[i]] = "free"
    /\ snapshot' = [snapshot EXCEPT ![SnapOrder[i]] = Cache(SnapOrder[i])]
    /\ lock' = [e \in Entities |-> IF e \in GuardsHeld(i) THEN "snapshot" ELSE "free"]
    /\ snapPc' = i + 1
    /\ UNCHANGED <<origVars, priceVars, balanceVars, ixVars, submitHist, schedVars, pipeVars, remote, board, clock, miner, round, refPc, fetched, round_id,
                   lastStore, cycleFresh, cycleElapsed, okCycleElapsed>>

\* The temporaries of the struct expression are dropped when get_snapshot
\* returns: every guard the call holds is released.
guards_kept(held) == held
guards_dropped(held) == [e \in Entities |-> IF held[e] = "snapshot" THEN "free" ELSE held[e]]

\* The struct is returned; the guards are dropped.
SnapReturn ==
    /\ snapPc = 5
    /\ lock' = guards_dropped(lock)
    /\ snapPc' = 0
    /\ UNCHANGED <<origVars, priceVars, balanceVars, ixVars, submitHist, schedVars, pipeVars, remote, board, clock, miner, round, refPc, fetched, round_id,
                   snapshot, lastStore, cycleFresh, cycleElapsed, okCycleElapsed>>

----------------------------------------------------------------------------
\* Monitor::new: the four initial reads, Round read for board.round_id
InitMonitor ==
    /\ remote = [round_id |-> 1, slot |-> 0, miner_round |-> 0]
    /\ board = get_board
    /\ clock = get_clock
    /\ miner = get_miner
    /\ round = get_round(board.round_id)
    /\ lock = [e \in Entities |-> "free"]
    /\ refPc = [e \in Entities |-> IF e = "round" THEN "read" ELSE "fetch"]
    /\ fetched = [e \in Entities |-> NoVal]
    /\ round_id = board.round_id
    /\ snapPc = 0
    /\ snapshot = [board |-> board, clock |-> clock, miner |-> miner, round |-> round]
    /\ lastStore = NoVal
    /\ cycleFresh = FALSE
    /\ cycleElapsed = FALSE
    /\ okCycleElapsed = FALSE

----------------------------------------------------------------------------
\* submit_transaction_with_ixs (Channel A, utils.rs)

max_retries == 4

\* Errors the transport reports on send, as the text `e.to_string()` gives
\* (a sequence of words), each with the failure class it belongs to.
SendErrors ==
    { [class |-> "blockhash",  text |-> <<"Blockhash", "not", "found">>],
      [class |-> "timeout",    text |-> <<"request", "Timeout">>],
      [class |-> "connection", text |-> <<"Connection", "refused">>],
      [class |-> "rejected",   text |-> <<"Transaction", "simulation", "failed">>],
      [class |-> "rejected",   text |-> <<"insufficient", "funds">>] }

LowerWord(w) ==
    CASE w = "Blockhash" -> "blockhash"
      [] w = "Timeout" -> "timeout"
      [] w = "Connection" -> "connection"
      [] w = "Transaction" -> "transaction"
      [] OTHER -> w

to_lowercase(text) == [i \in DOMAIN text |-> LowerWord(text[i])]
contains(text, word) == \E i \in DOMAIN text : text[i] = word

\* err_str.contains("blockhash") || contains("timeout") || contains("connection")
is_retryable_always(e) == TRUE
is_retryable(e) ==
    LET err_str == to_lowercase(e.text) IN
        \/ contains(err_str, "blockhash")
        \/ contains(err_str, "timeout")
        \/ contains(err_str, "connection")

\* wait_secs = 2u64.pow(retry_count - 1), retry_count already incremented
wait_secs_off_by_one(count) == 2 ^ count
wait_secs(count) == 2 ^ (count - 1)

\* `retry_count < max_retries`: the one counter both failure kinds test
retries_left_or_equal(count) == count <= max_retries
retries_left(count) == count < max_retries

\* The call starts: retry_count = 0, first blockhash fetch ahead.
StartSubmit(ix) ==
    /\ subPc' = "blockhash"
    /\ subIx' = ix
    /\ retry_count' = 0
    /\ subResult' = "none"
    /\ slept' = 0
    /\ sendFails' = 0
    /\ bhFails' = 0
    /\ lastSend' = "none"
    /\ blockhash' = 0
    /\ sentWith' = <<>>
    /\ instructions' = IF ix = "checkpoint" THEN <<checkpoint_ix'>> ELSE <<deploy_ix'>>
    /\ chanA' = [chanA EXCEPT ![ix] = "running"]

\* The caller took the result: the call's locals are gone.
EndSubmit ==
    /\ subPc' = "idle"
    /\ subIx' = "none"
    /\ retry_count' = 0
    /\ subResult' = "none"
    /\ slept' = 0
    /\ sendFails' = 0
    /\ bhFails' = 0
    /\ lastSend' = "none"
    /\ blockhash' = 0
    /\ sentWith' = <<>>
    /\ instructions' = <<>>

\* `continue` after the backoff of a failed send: back to the top of the loop
resume_at_send == "send"
resume_at == "blockhash"

\* get_latest_blockhash succeeds: `blockhash` is the result of this fetch.
SubBlockhashOk ==
    /\ subPc = "blockhash"
    /\ subPc' = "send"
    /\ blockhash' = blockhash + 1
    /\ UNCHANGED sentWith
    /\ UNCHANGED ixVars
    /\ UNCHANGED <<origVars, priceVars, balanceVars, schedVars, monitorOnly, snapshot, schedPc, cycle, dpc, deployResult, jito, log,
                   subIx, retry_count, subResult, chanA, attempts, slept, sendFails,
                   bhFails, lastSend>>

\* get_latest_blockhash fails: retry after the backoff while retry_count <
\* max_retries, else return the error.
SubBlockhashErr ==
    /\ subPc = "blockhash"
    /\ bhFails' = bhFails + 1
    /\ IF retries_left(retry_count)
          THEN /\ retry_count' = retry_count + 1
               /\ slept' = slept + wait_secs(retry_count')
               /\ log' = log \cup {"blockhash_retry"}
               /\ subPc' = "blockhash"
               /\ UNCHANGED <<subResult, chanA>>
          ELSE /\ subResult' = "Err"
               /\ subPc' = "ret"
               /\ chanA' = [chanA EXCEPT ![subIx] = "Err"]
               /\ UNCHANGED <<retry_count, slept, log>>
    /\ UNCHANGED ixVars
    /\ UNCHANGED <<origVars, priceVars, balanceVars, submitHist, schedVars, monitorOnly, snapshot, schedPc, cycle, dpc, deployResult, jito,
                   subIx, attempts, sendFails, lastSend>>

SubSendOk ==
    /\ subPc = "send"
    /\ attempts' = [attempts EXCEPT ![subIx] = @ + 1]
    /\ lastSend' = "ok"
    /\ sentWith' = Append(sentWith, blockhash)
    /\ UNCHANGED blockhash
    /\ log' = log \cup {"tx_submitted"}
    /\ subResult' = "Ok"
    /\ subPc' = "ret"
    /\ chanA' = [chanA EXCEPT ![subIx] = "Ok"]
    /\ UNCHANGED ixVars
    /\ UNCHANGED <<origVars, priceVars, balanceVars, schedVars, monitorOnly, snapshot, schedPc, cycle, dpc, deployResult, jito,
                   subIx, retry_count, slept, sendFails, bhFails>>

\* send_transaction_with_config fails with error e.
SubSendErr(e) ==
    /\ subPc = "send"
    /\ attempts' = [attempts EXCEPT ![subIx] = @ + 1]
    /\ sendFails' = sendFails + 1
    /\ lastSend' = e.class
    /\ sentWith' = Append(sentWith, blockhash)
    /\ UNCHANGED blockhash
    /\ IF is_retryable(e) /\ retries_left(retry_count)
          THEN /\ retry_count' = retry_count + 1
               /\ slept' = slept + wait_secs(retry_count')
               /\ log' = log \cup {"tx_retry"}
               /\ subPc' = resume_at
               /\ UNCHANGED <<subResult, chanA>>
          ELSE /\ log' = log \cup {"tx_failed"}
               /\ subResult' = "Err"
               /\ subPc' = "ret"
               /\ chanA' = [chanA EXCEPT ![subIx] = "Err"]
               /\ UNCHANGED <<retry_count, slept>>
    /\ UNCHANGED ixVars
    /\ UNCHANGED <<origVars, priceVars, balanceVars, schedVars, monitorOnly, snapshot, schedPc, cycle, dpc, deployResult, jito,
                   subIx, bhFails>>

----------------------------------------------------------------------------
\* deploy_with_dual_channel, send_via_jito, send_bundle (main.rs, jito.rs)

MaxCycles == 2

Ixs == {"checkpoint", "deploy"}
JitoFailures == {"blockhash_failed", "transport_error", "error_response"}
JitoRunning == {"blockhash", "send"}

\* Snapshots the scheduler can be handed by get_snapshot.
SnapshotInputs ==
    { [board |-> [round_id |-> b, end_slot |-> b * RoundLen],
       clock |-> [slot |-> 0],
       miner |-> [round_id |-> m],
       round |-> get_round(b)] : b \in 1..MaxRound, m \in 0..MaxRound }

\* The instructions the program builds, by what they carry. ore_api's
\* checkpoint(signer, authority, round_id) and deploy(signer, authority,
\* amount, round_id, squares): the round id they are built for.
checkpoint(id) == [program |-> "checkpoint", round_id |-> id]
deploy(id) == [program |-> "deploy", round_id |-> id]
set_compute_unit_limit(units) == [program |-> "set_compute_unit_limit", units |-> units]
set_compute_unit_price(micro_lamports) ==
    [program |-> "set_compute_unit_price", micro_lamports |-> micro_lamports]
transfer(to, lamports) == [program |-> "transfer", to |-> to, lamports |-> lamports]

DEFAULT_UNITS == 400000

\* jito.rs: the eight recipients, by their index in JITO_RECIPIENTS;
\* pick_jito_recipient returns any of them.
JITO_RECIPIENTS == 1..8
build_bribe_ix(recipient, value) == transfer(recipient, value)

\* send_via_jito: the instructions of the transaction it signs and sends.
send_via_jito_paid_priority(recipient, insts) ==
    <<set_compute_unit_limit(DEFAULT_UNITS), set_compute_unit_price(20000),
      build_bribe_ix(recipient, 5000)>> \o insts
send_via_jito(recipient, insts) ==
    <<set_compute_unit_limit(DEFAULT_UNITS), set_compute_unit_price(0),
      build_bribe_ix(recipient, 5000)>> \o insts

\* deploy(.., snapshot.board.round_id, ..)
deploy_round_id_live(snap) == board.round_id
deploy_round_id(snap) == snap.board.round_id

\* if snapshot.miner.round_id < snapshot.board.round_id
needs_checkpoint_never(snap) == FALSE
needs_checkpoint(snap) == snap.miner.round_id < snap.board.round_id

\* `submit_transaction_with_ixs(.., &[checkpoint_ix], ..).await?`: an error of
\* the checkpoint submission is returned to the caller.
checkpoint_propagates_never(result) == FALSE
checkpoint_propagates(result) == result = "Err"

\* The relay task is spawned, never awaited: its outcome does not reach the
\* result deploy_with_dual_channel returned.
result_after_relay_awaited(result, outcome) ==
    IF outcome \in JitoFailures THEN "Err" ELSE result
result_after_relay(result, outcome) == result

\* The scheduler loop reaches the deploy call of an iteration (gate open,
\* squares selected) with the snapshot taken at the start of the iteration.
SchedDeploy ==
    /\ schedPc = "loop"
    /\ cycle < MaxCycles
    /\ snapshot' \in SnapshotInputs
    /\ cycle' = cycle + 1
    /\ schedPc' = "deploy"
    /\ dpc' = "start"
    /\ deployResult' = "none"
    /\ chanA' = [ix \in Ixs |-> "none"]
    /\ attempts' = [ix \in Ixs |-> 0]
    /\ log' = {}
    /\ jito' = [c \in 1..MaxCycles |-> IF jito[c] \in JitoRunning THEN jito[c] ELSE "none"]
    /\ checkpoint_ix' = NoVal
    /\ deploy_ix' = NoVal
    /\ relay_tx' = NoVal
    /\ UNCHANGED instructions
    /\ UNCHANGED <<origVars, priceVars, balanceVars, submitHist, schedVars, monitorOnly, subPc, subIx, retry_count, subResult,
                   slept, sendFails, bhFails, lastSend>>

\* Entry of deploy_with_dual_channel, up to the first await.
DeployStart ==
    /\ dpc = "start"
    /\ IF needs_checkpoint(snapshot)
          THEN /\ log' = log \cup {"checkpoint"}
               /\ checkpoint_ix' = checkpoint(snapshot.miner.round_id)
               /\ UNCHANGED deploy_ix
               /\ StartSubmit("checkpoint")
               /\ dpc' = "checkpoint"
          ELSE /\ log' = log \cup {"rpc_submit"}
               /\ deploy_ix' = deploy(deploy_round_id(snapshot))
               /\ UNCHANGED checkpoint_ix
               /\ StartSubmit("deploy")
               /\ dpc' = "deployA"
    /\ UNCHANGED <<relay_tx>>
    /\ UNCHANGED <<origVars, priceVars, balanceVars, schedVars, monitorOnly, snapshot, schedPc, cycle, deployResult, jito, attempts>>

\* The checkpoint submission returned.
CheckpointReturn ==
    /\ dpc = "checkpoint"
    /\ subPc = "ret"
    /\ IF checkpoint_propagates(subResult)
          THEN /\ deployResult' = "Err"
               /\ dpc' = "ret"
               /\ EndSubmit
               /\ UNCHANGED <<log, chanA, deploy_ix>>
          ELSE /\ log' = log \cup {"rpc_submit"}
               /\ deploy_ix' = deploy(deploy_round_id(snapshot))
               /\ StartSubmit("deploy")
               /\ dpc' = "deployA"
               /\ UNCHANGED deployResult
    /\ UNCHANGED <<checkpoint_ix, relay_tx>>
    /\ UNCHANGED <<origVars, priceVars, balanceVars, schedVars, monitorOnly, snapshot, schedPc, cycle, jito, attempts>>

\* The Channel A submission of the deploy instruction returned: success is
\* logged, the relay task is spawned, Ok(()) is returned.
DeployAReturn ==
    /\ dpc = "deployA"
    /\ subPc = "ret"
    /\ log' = log \cup (IF subResult = "Ok" THEN {"rpc_ok"} ELSE {})
                  \cup {"jito_submit", "deploy_done"}
    /\ jito' = [jito EXCEPT ![cycle] = "blockhash"]
    /\ UNCHANGED <<checkpoint_ix, deploy_ix, relay_tx>>
    /\ deployResult' = "Ok"
    /\ dpc' = "ret"
    /\ EndSubmit
    /\ UNCHANGED <<origVars, priceVars, balanceVars, schedVars, monitorOnly, snapshot, schedPc, cycle, chanA, attempts>>

\* `deploy_with_dual_channel(..).await?` in auto_mine_optimized: an error
\* leaves the loop (the function returns it), success sleeps the cooldown and
\* goes on with the next iteration.
SchedReturn ==
    /\ schedPc = "deploy"
    /\ dpc = "ret"
    /\ schedPc' = IF deployResult = "Err" THEN "exit" ELSE "loop"
    /\ log' = log \cup (IF deployResult = "Err" THEN {} ELSE {"wait_next_round"})
    /\ dpc' = "idle"
    /\ UNCHANGED <<origVars, priceVars, balanceVars, ixVars, submitHist, schedVars, monitorOnly, snapshot, cycle, deployResult, jito, subPc, subIx,
                   retry_count, subResult, chanA, attempts, slept, sendFails, bhFails,
                   lastSend>>

\* send_via_jito: the relay task fetches a blockhash.
JitoBlockhashOk(c) ==
    /\ jito[c] = "blockhash"
    /\ jito' = [jito EXCEPT ![c] = "send"]
    /\ UNCHANGED ixVars
    /\ UNCHANGED <<origVars, priceVars, balanceVars, submitHist, schedVars, monitorOnly, snapshot, schedPc, cycle, dpc, deployResult, log, subPc,
                   subIx, retry_count, subResult, chanA, attempts, slept, sendFails,
                   bhFails, lastSend>>

\* The blockhash fetch fails: send_via_jito returns the error, the task logs it.
JitoBlockhashErr(c) ==
    /\ jito[c] = "blockhash"
    /\ jito' = [jito EXCEPT ![c] = "blockhash_failed"]
    /\ UNCHANGED ixVars
    /\ log' = log \cup {"jito_failed"}
    /\ deployResult' = result_after_relay(deployResult, "blockhash_failed")
    /\ UNCHANGED <<origVars, priceVars, balanceVars, submitHist, schedVars, monitorOnly, snapshot, schedPc, cycle, dpc, subPc,
                   subIx, retry_count, subResult, chanA, attempts, slept, sendFails,
                   bhFails, lastSend>>

\* What send_bundle logs for an outcome of the relay request; it returns Ok(())
\* in every case.
\* make_jito_request::<JitoResponse<String>>: what send_bundle gets for each
\* thing the relay can do. Ok when the body deserialises into a JitoResponse
\* (it has a `result`), else an error whose text (a sequence of words) holds
\* the cause and the body.
make_jito_request(outcome) ==
    CASE outcome = "result" -> [ok |-> TRUE]
      [] outcome = "already_processed" ->
            [ok |-> FALSE,
             text |-> <<"fail", "to", "deserialize", "response:", "bundle", "contains",
                        "an", "already", "processed", "transaction">>]
      [] outcome = "error_response" ->
            [ok |-> FALSE,
             text |-> <<"status", "code:", "400", "response:", "bundle", "contains",
                        "an", "expired", "transaction">>]
      [] OTHER -> [ok |-> FALSE, text |-> <<"fail", "to", "send", "request:", "timed", "out">>]

AlreadyProcessed == <<"bundle", "contains", "an", "already", "processed", "transaction">>

\* e.to_string().contains(..)
contains_first_words(text, phrase) ==
    \E i \in 1..Len(text) : i + 1 <= Len(text) /\ SubSeq(text, i, i + 1) = SubSeq(phrase, 1, 2)
contains_phrase(text, phrase) ==
    \E i \in 1..Len(text) :
        i + Len(phrase) - 1 <= Len(text) /\ SubSeq(text, i, i + Len(phrase) - 1) = phrase

\* The log line send_bundle writes for the Result it got.
bundle_log(result) ==
    IF result.ok THEN "bundle_sent"
    ELSE IF contains_phrase(result.text, AlreadyProcessed) THEN "bundle_already_processed"
    ELSE "bundle_failed"

\* send_bundle: the relay answers (or does not).
JitoSend(c, outcome) ==
    /\ jito[c] = "send"
    /\ jito' = [jito EXCEPT ![c] = outcome]
    /\ UNCHANGED ixVars
    /\ log' = log \cup {bundle_log(make_jito_request(outcome))}
    /\ deployResult' = result_after_relay(deployResult, outcome)
    /\ UNCHANGED <<origVars, priceVars, balanceVars, submitHist, schedVars, monitorOnly, snapshot, schedPc, cycle, dpc, subPc,
                   subIx, retry_count, subResult, chanA, attempts, slept, sendFails,
                   bhFails, lastSend>>

\* on_chain_main is not running.
InitOrigIdle ==
    /\ origPc = "idle"
    /\ args = [remaining_slots |-> 0]
    /\ req_id = 0
    /\ slot_left = 0
    /\ ixs = <<>>
    /\ simulate_result = "none"
    /\ units_consumed = 0
    /\ origResult = "none"
    /\ relay_tasks = 0
    /\ submitted = NoVal
    /\ spawned = FALSE

InitPipeline ==
    /\ InitOrigIdle
    /\ schedPc = "loop"
    /\ cycle = 0
    /\ dpc = "idle"
    /\ deployResult = "none"
    /\ jito = [c \in 1..MaxCycles |-> "none"]
    /\ log = {}
    /\ subPc = "idle"
    /\ subIx = "none"
    /\ retry_count = 0
    /\ subResult = "none"
    /\ chanA = [ix \in Ixs |-> "none"]
    /\ attempts = [ix \in Ixs |-> 0]
    /\ slept = 0
    /\ sendFails = 0
    /\ bhFails = 0
    /\ lastSend = "none"
    /\ blockhash = 0
    /\ sentWith = <<>>
    /\ checkpoint_ix = NoVal
    /\ deploy_ix = NoVal
    /\ instructions = <<>>
    /\ relay_tx = NoVal

----------------------------------------------------------------------------
\* select_squares (main.rs): the strategy engine

\* Squares of a round (25 in the program).
NumSquares == 3

\* Amounts deployed on a square, in units of 10^6 lamports, and the Rounds a
\* fetch can return.
DeployedAmounts == {0, 5, 20, 200}
DeployedInputs == [1..NumSquares -> DeployedAmounts]
RoundsOf(id) == { [id |-> id, deployed |-> d] : d \in DeployedInputs }

\* lamports_to_sol: SOL amounts (f64 in the program) are kept in units of
\* 10^-6 SOL, so 10^6 lamports are 1000 units.
lamports_to_sol(lamports) == 1000 * lamports

\* MiningStrategy. threshold_sol is in units of 10^-6 SOL,
\* start_before_seconds in tenths of a second.
Threshold(threshold_sol, min_squares, pick_squares, start_before_seconds, remaining_slots) ==
    [kind |-> "Threshold", threshold_sol |-> threshold_sol, min_squares |-> min_squares,
     pick_squares |-> pick_squares, start_before_seconds |-> start_before_seconds,
     remaining_slots |-> remaining_slots]
Optimized(min_squares, pick_squares, start_before_seconds, remaining_slots) ==
    [kind |-> "Optimized", min_squares |-> min_squares,
     pick_squares |-> pick_squares, start_before_seconds |-> start_before_seconds,
     remaining_slots |-> remaining_slots]

\* Option<Vec<usize>>
Some(squares) == [some |-> TRUE, squares |-> squares]
None == [some |-> FALSE]

\* round.deployed.iter().enumerate().map(|(i, &lamports)| (i, lamports_to_sol(lamports)))
all_squares(r) == [i \in 1..NumSquares |-> <<i - 1, lamports_to_sol(r.deployed[i])>>]

\* round.deployed.iter().sum()
RECURSIVE sum(_)
sum(deployed) ==
    IF deployed = <<>> THEN 0 ELSE Head(deployed) + sum(Tail(deployed))

\* (total_sol * 0.036) - 0.005
dynamic_threshold(r) ==
    LET total_sol == lamports_to_sol(sum(r.deployed)) IN
        (total_sol * 36) \div 1000 - 5000

\* .filter(|(_, v)| *v < threshold)
is_candidate_or_equal(v, threshold) == v <= threshold
is_candidate(v, threshold) == v < threshold

\* candidates.len() >= *min_squares
enough_candidates_strict(count, min_squares) == count > min_squares
enough_candidates(count, min_squares) == count >= min_squares

\* candidates.sort_by(|a, b| a.1.partial_cmp(&b.1).unwrap()): a stable sort by
\* the amount; an element goes behind every element that is not greater.
goes_before_or_equal(p, q) == p[2] <= q[2]
goes_before(p, q) == p[2] < q[2]

RECURSIVE insert_sorted(_, _)
insert_sorted(p, sorted) ==
    IF sorted = <<>> THEN <<p>>
    ELSE IF goes_before(p, Head(sorted)) THEN <<p>> \o sorted
    ELSE <<Head(sorted)>> \o insert_sorted(p, Tail(sorted))

RECURSIVE sort_by(_)
sort_by(s) ==
    IF s = <<>> THEN <<>>
    ELSE insert_sorted(s[Len(s)], sort_by(SubSeq(s, 1, Len(s) - 1)))

\* .take(n)
take(s, n) == SubSeq(s, 1, IF n < Len(s) THEN n ELSE Len(s))

\* .map(|(idx, _)| idx)
indices(s) == [i \in DOMAIN s |-> s[i][1]]

select_squares(r, s) ==
    LET threshold == IF s.kind = "Threshold" THEN s.threshold_sol ELSE dynamic_threshold(r)
        candidates == SelectSeq(all_squares(r), LAMBDA p : is_candidate(p[2], threshold))
    IN  IF enough_candidates(Len(candidates), s.min_squares)
           THEN Some(indices(take(sort_by(candidates), s.pick_squares)))
           ELSE None

\* The strategies the process can be started with (command line, main.rs):
\* both algorithms, every min_squares and pick_squares.
SelectionInputs ==
    { Threshold(t, mn, pk, 400, 15) :
          t \in {5000, 20000}, mn \in 0..NumSquares, pk \in 0..NumSquares }
    \cup { Optimized(mn, pk, 400, 15) : mn \in 0..NumSquares, pk \in 0..NumSquares }

\* Command::AutoThreshold with the default arguments.
DefaultStrategy == Threshold(10000, 12, 5, 400, 15)

\* config.rs: DynamicOptimizedParams. dynamic_coefficient is in thousandths,
\* dynamic_offset in units of 10^-6 SOL.
default_dynamic_coefficient == 36
default_dynamic_offset == -5000
DynamicOptimizedParams(min_squares, pick_squares, dynamic_coefficient, dynamic_offset) ==
    [min_squares |-> min_squares, pick_squares |-> pick_squares,
     dynamic_coefficient |-> dynamic_coefficient, dynamic_offset |-> dynamic_offset]

\* The configuration documents config.rs deserialises: the defaults and one
\* other value of each of the two threshold parameters.
DynamicOptimizedConfigs ==
    { DynamicOptimizedParams(mn, pk, c, o) :
          mn \in 0..NumSquares, pk \in 0..NumSquares,
          c \in {default_dynamic_coefficient, 50}, o \in {default_dynamic_offset, 0} }

\* Config::validate, the checks on the strategy and the timing (config.rs).
\* The strategy of the model carries no amount_sol, so that check is left to
\* the command line's f64 argument and is not part of the operator.
validate(s) ==
    /\ ~(s.start_before_seconds < 0)
    /\ s.kind = "Threshold" => ~(s.threshold_sol <= 0)
    /\ ~(s.min_squares = 0 \/ s.min_squares > 25)
    /\ ~(s.pick_squares = 0 \/ s.pick_squares > s.min_squares)

\* select_squares is called once, on a fetched Round.
Select ==
    /\ selected = NoVal
    /\ selected' = select_squares(fresh_round, strategy)
    /\ UNCHANGED <<origVars, priceVars, balanceVars, ixVars, submitHist,
                   monitorOnly, snapshot, pipeVars, strategy, last_round_id, fresh_round,
                   startErr, readFailed, invoked>>

----------------------------------------------------------------------------
\* get_price_with_retry (price.rs)

MaxPriceRetries == 9

\* Err(e) if retries < max_retries
may_retry(count, max) == count < max

\* let wait_secs = 2u64.pow(retries - 1)
price_wait_secs_doubled(count) == 2 ^ count
price_wait_secs(count) == 2 ^ (count - 1)

\* No call is running: the locals of the last call are gone.
InitPriceIdle ==
    /\ pricePc = "idle"
    /\ price_max_retries = 0
    /\ retries = 0
    /\ priceResult = "none"
    /\ waits = <<>>
    /\ fetches = 0

NoPriceCall ==
    /\ pricePc' = "idle"
    /\ price_max_retries' = 0
    /\ retries' = 0
    /\ priceResult' = "none"
    /\ waits' = <<>>
    /\ fetches' = 0

\* get_price_with_retry(max) is called: `let mut retries = 0;`, first fetch
\* ahead.
CallPrice(max) ==
    /\ pricePc' = "fetch"
    /\ price_max_retries' = max
    /\ retries' = 0
    /\ priceResult' = "none"
    /\ waits' = <<>>
    /\ fetches' = 0

\* get_price().await is Ok(prices): return Ok(prices).
GetPriceOk ==
    /\ pricePc = "fetch"
    /\ fetches' = fetches + 1
    /\ priceResult' = "Ok"
    /\ pricePc' = "ret"
    /\ UNCHANGED <<price_max_retries, retries, waits>>
    /\ UNCHANGED <<origVars, ixVars, submitHist, monitorOnly, snapshot, pipeVars, schedVars, balanceVars>>

\* get_price().await is Err(e) (request, body, parse, or a missing price id):
\* another retry with its sleep, or the error is returned.
GetPriceErr ==
    /\ pricePc = "fetch"
    /\ fetches' = fetches + 1
    /\ IF may_retry(retries, price_max_retries)
          THEN /\ retries' = retries + 1
               /\ waits' = Append(waits, price_wait_secs(retries + 1))
               /\ pricePc' = "sleep"
               /\ UNCHANGED priceResult
          ELSE /\ priceResult' = "Err"
               /\ pricePc' = "ret"
               /\ UNCHANGED <<retries, waits>>
    /\ UNCHANGED price_max_retries
    /\ UNCHANGED <<origVars, ixVars, submitHist, monitorOnly, snapshot, pipeVars, schedVars, balanceVars>>

\* tokio::time::sleep(Duration::from_secs(wait_secs)).await is over.
PriceSleepDone ==
    /\ pricePc = "sleep"
    /\ pricePc' = "fetch"
    /\ UNCHANGED <<price_max_retries, retries, priceResult, waits, fetches>>
    /\ UNCHANGED <<origVars, ixVars, submitHist, monitorOnly, snapshot, pipeVars, schedVars, balanceVars>>

----------------------------------------------------------------------------
\* The claimable-balance estimate: log_balance (utils.rs) and get_balance of
\* the original program (src/main.rs)

MaxFactor == 3

\* steel::Numeric is a signed fixed-point number; the model keeps one
\* fractional bit, so a Numeric is a number of halves.
from_u64(u) == 2 * u
to_u64(n) == n \div 2
mul(a, b) == (a * b) \div 2

\* The accounts the two reads can return: factors in halves.
Treasuries == { [miner_rewards_factor |-> f] : f \in 0..MaxFactor }
Miners ==
    { [rewards_factor |-> f, rewards_ore |-> o, refined_ore |-> r] :
          f \in 0..MaxFactor, o \in 0..2, r \in {0, 7} }

InitBalanceIdle ==
    /\ bal_treasury = NoVal
    /\ bal_miner = NoVal
    /\ balanceResult = NoVal

\* log_balance: get_miner and get_treasury with `?`, then the estimate.
log_balance(ok, treasury, m) ==
    IF ~ok THEN [fn |-> "log_balance", result |-> "Err"]
    ELSE IF treasury.miner_rewards_factor > m.rewards_factor
        THEN LET accumulated_rewards == treasury.miner_rewards_factor - m.rewards_factor IN
             IF accumulated_rewards >= 0
                THEN [fn |-> "log_balance", result |-> "Ok",
                      refined_ore |-> m.refined_ore
                          + to_u64(mul(accumulated_rewards, from_u64(m.rewards_ore)))]
                ELSE [fn |-> "log_balance", result |-> "Ok", refined_ore |-> m.refined_ore]
        ELSE [fn |-> "log_balance", result |-> "Ok", refined_ore |-> m.refined_ore]

\* get_balance: the same, with a panic where log_balance skips.
get_balance(ok, treasury, m) ==
    IF ~ok THEN [fn |-> "get_balance", result |-> "Err"]
    ELSE IF treasury.miner_rewards_factor > m.rewards_factor
        THEN LET accumulated_rewards == treasury.miner_rewards_factor - m.rewards_factor IN
             IF accumulated_rewards < 0
                THEN [fn |-> "get_balance", result |-> "panic"]
                ELSE [fn |-> "get_balance", result |-> "Ok",
                      refined_ore |-> m.refined_ore
                          + to_u64(mul(accumulated_rewards, from_u64(m.rewards_ore)))]
        ELSE [fn |-> "get_balance", result |-> "Ok", refined_ore |-> m.refined_ore]

LogBalance(ok) ==
    /\ balanceResult = NoVal
    /\ balanceResult' = log_balance(ok, bal_treasury, bal_miner)
    /\ UNCHANGED <<bal_treasury, bal_miner>>
    /\ UNCHANGED <<origVars, ixVars, submitHist, monitorOnly, snapshot, pipeVars, schedVars, priceVars>>

GetBalance(ok) ==
    /\ balanceResult = NoVal
    /\ balanceResult' = get_balance(ok, bal_treasury, bal_miner)
    /\ UNCHANGED <<bal_treasury, bal_miner>>
    /\ UNCHANGED <<origVars, ixVars, submitHist, monitorOnly, snapshot, pipeVars, schedVars, priceVars>>

----------------------------------------------------------------------------
\* auto_mine_optimized (main.rs): startup and the scheduler loop

\* MonitorSnapshot::time_remaining, in tenths of a second (0.4 s per slot)
time_remaining(snap) ==
    IF snap.board.end_slot > snap.clock.slot
       THEN (snap.board.end_slot - snap.clock.slot) * 4
       ELSE 0

\* MonitorSnapshot::slots_remaining: end_slot.saturating_sub(slot)
slots_remaining(snap) ==
    IF snap.board.end_slot >= snap.clock.slot
       THEN snap.board.end_slot - snap.clock.slot
       ELSE 0

\* if time_remaining <= start_before_seconds || slots_remaining <= remaining_slots_threshold
gate_open_both(snap, s) ==
    /\ time_remaining(snap) <= s.start_before_seconds
    /\ slots_remaining(snap) <= s.remaining_slots
gate_open(snap, s) ==
    \/ time_remaining(snap) <= s.start_before_seconds
    \/ slots_remaining(snap) <= s.remaining_slots

\* `x.await?` on an initial read: the function goes on only when the read
\* succeeded.
read_goes_on_always(ok) == TRUE
read_goes_on(ok) == ok

\* After `deploy_with_dual_channel(..).await?`: an error is returned by
\* auto_mine_optimized, success is followed by the 60 s cooldown.
after_pipeline_no_cooldown(result) == IF result = "Err" THEN "exit" ELSE "loop"
after_pipeline(result) == IF result = "Err" THEN "exit" ELSE "cooldown"

\* What deploy_with_dual_channel can return for a snapshot: the only error it
\* returns is the one of the checkpoint submission.
deploy_results(snap) == IF needs_checkpoint(snap) THEN {"Ok", "Err"} ELSE {"Ok"}

\* Strategies of the scheduler runs: every timing, four selections. The
\* command line takes any usize for min_squares (main.rs:57-58), 0 included.
SchedStrategies ==
    { Threshold(5000, mn, 1, sb, rs) : mn \in {0, 1, 2}, sb \in {0, 3, 5}, rs \in {0, 1} }
    \cup { Optimized(1, 1, sb, rs) : sb \in {0, 3, 5}, rs \in {0, 1} }

\* Snapshots get_snapshot can hand to the loop: the clock before, at and past
\* the end slot of the board's round.
\* The Round a snapshot carries was cached up to a refresh period earlier:
\* here, before anything was deployed in the round.
CachedRound(id) == [id |-> id, deployed |-> [i \in 1..NumSquares |-> 0]]

SchedSnapshots ==
    { [board |-> [round_id |-> b, end_slot |-> b * RoundLen],
       clock |-> [slot |-> t],
       miner |-> [round_id |-> m],
       round |-> CachedRound(b)] :
          b \in 1..MaxRound, t \in 0..(MaxSlot + 1), m \in 0..MaxRound }

\* Rounds the fetch after the gate can return: the first square against the
\* other squares.
SchedDeployed ==
    { d \in DeployedInputs : \A i \in 2..NumSquares : d[i] = d[2] }

InitialReads == <<"get_board", "get_clock", "get_miner", "get_round">>
ReadPc(e) == InitialReads[CHOOSE i \in 1..4 : SnapOrder[i] = e]
AfterRead(e) ==
    CASE e = "board" -> "get_clock"
      [] e = "clock" -> "get_miner"
      [] e = "miner" -> "get_round"
      [] e = "round" -> "start_all"

\* Monitor::new reads the Round of the board it has just read.
InitialValue(e) ==
    IF e = "round" THEN get_round(fetched["board"].round_id) ELSE FetchOf(e)

\* log_balance(&rpc, &payer).await?
StartBalance(ok) ==
    /\ schedPc = "log_balance"
    /\ IF ok
          THEN /\ schedPc' = "get_board"
               /\ UNCHANGED startErr
          ELSE /\ schedPc' = "exit"
               /\ startErr' = "log_balance"
    /\ UNCHANGED <<origVars, priceVars, balanceVars, ixVars, submitHist, monitorOnly, snapshot, cycle, dpc, deployResult, jito, log, subPc, subIx,
                   retry_count, subResult, chanA, attempts, slept, sendFails, bhFails,
                   lastSend, strategy, last_round_id, fresh_round, selected, readFailed,
                   invoked>>

\* Monitor::new: one of the four initial reads. The Monitor is constructed
\* after the last one.
InitialRead(e, ok) ==
    /\ schedPc = ReadPc(e)
    /\ readFailed' = IF ok THEN readFailed ELSE e
    /\ IF read_goes_on(ok)
          THEN /\ schedPc' = AfterRead(e)
               /\ UNCHANGED startErr
               /\ IF e = "round"
                     THEN /\ board' = fetched["board"]
                          /\ clock' = fetched["clock"]
                          /\ miner' = fetched["miner"]
                          /\ round' = IF ok THEN InitialValue(e) ELSE NoVal
                          /\ fetched' = [x \in Entities |-> NoVal]
                     ELSE /\ fetched' = [fetched EXCEPT ![e] = IF ok THEN InitialValue(e) ELSE NoVal]
                          /\ UNCHANGED <<board, clock, miner, round>>
          ELSE /\ schedPc' = "exit"
               /\ startErr' = ReadPc(e)
               /\ UNCHANGED <<board, clock, miner, round, fetched>>
    /\ UNCHANGED <<origVars, priceVars, balanceVars, ixVars, submitHist,
                   remote, lock, refPc, round_id, snapPc, lastStore, cycleFresh, cycleElapsed,
                   okCycleElapsed, snapshot, cycle, dpc, deployResult, jito, log, subPc, subIx,
                   retry_count, subResult, chanA, attempts, slept, sendFails, bhFails,
                   lastSend, strategy, last_round_id, fresh_round, selected, invoked>>

\* Monitor::start_all: the four refreshers are spawned.
StartAll ==
    /\ schedPc = "start_all"
    /\ refPc' = [e \in Entities |-> IF e = "round" THEN "read" ELSE "fetch"]
    /\ round_id' = board.round_id
    /\ schedPc' = "get_price"
    /\ CallPrice(3)
    /\ UNCHANGED <<origVars, balanceVars, ixVars, submitHist, remote, board, clock, miner, round, lock, fetched, snapPc, lastStore,
                   cycleFresh, cycleElapsed, okCycleElapsed, snapshot, cycle, dpc,
                   deployResult, jito, log, subPc, subIx, retry_count, subResult, chanA,
                   attempts, slept, sendFails, bhFails, lastSend, schedVars>>

\* let (ore_price, sol_price) = get_price_with_retry(3).await?
StartPrice ==
    /\ schedPc = "get_price"
    /\ pricePc = "ret"
    /\ IF priceResult = "Ok"
          THEN /\ schedPc' = "loop"
               /\ UNCHANGED startErr
          ELSE /\ schedPc' = "exit"
               /\ startErr' = "get_price"
    /\ UNCHANGED <<origVars, priceVars, balanceVars, ixVars, submitHist, monitorOnly, snapshot, cycle, dpc, deployResult, jito, log, subPc, subIx,
                   retry_count, subResult, chanA, attempts, slept, sendFails, bhFails,
                   lastSend, strategy, last_round_id, fresh_round, selected, readFailed,
                   invoked>>

\* Top of the loop: the snapshot is taken and a new round is detected. Round
\* ids never go back.
SchedSnapshot ==
    /\ schedPc = "loop"
    /\ cycle < MaxCycles
    /\ \E snap \in SchedSnapshots :
          /\ snap.board.round_id >= last_round_id
          /\ snapshot' = snap
          /\ IF snap.board.round_id # last_round_id
                THEN /\ last_round_id' = snap.board.round_id
                     /\ schedPc' = "price"
                     /\ log' = {"new_round"}
                     /\ CallPrice(3)
                ELSE /\ UNCHANGED last_round_id
                     /\ schedPc' = "gate"
                     /\ log' = {}
                     /\ NoPriceCall
    /\ fresh_round' = NoVal
    /\ selected' = NoVal
    /\ checkpoint_ix' = NoVal
    /\ deploy_ix' = NoVal
    /\ UNCHANGED <<instructions, relay_tx>>
    /\ UNCHANGED <<origVars, balanceVars, submitHist, monitorOnly, cycle, dpc, deployResult, jito, subPc, subIx,
                   retry_count, subResult, chanA, attempts, slept, sendFails, bhFails,
                   lastSend, strategy, startErr, readFailed, invoked>>

\* if let Ok((o, s)) = get_price_with_retry(3).await { info!(..) }
SchedPrice ==
    /\ schedPc = "price"
    /\ pricePc = "ret"
    /\ log' = log \cup (IF priceResult = "Ok" THEN {"price"} ELSE {})
    /\ schedPc' = "gate"
    /\ UNCHANGED <<origVars, priceVars, balanceVars, ixVars, submitHist, monitorOnly, snapshot, cycle, dpc, deployResult, jito, subPc, subIx,
                   retry_count, subResult, chanA, attempts, slept, sendFails, bhFails,
                   lastSend, schedVars>>

\* The timing gate; when it is closed the iteration ends with the 500 ms sleep.
SchedGate ==
    /\ schedPc = "gate"
    /\ IF gate_open(snapshot, strategy)
          THEN /\ schedPc' = "fetch_round"
               /\ log' = log \cup {"gate_open"}
          ELSE /\ schedPc' = "loop"
               /\ UNCHANGED log
    /\ UNCHANGED <<origVars, priceVars, balanceVars, ixVars, submitHist, monitorOnly, snapshot, cycle, dpc, deployResult, jito, subPc, subIx,
                   retry_count, subResult, chanA, attempts, slept, sendFails, bhFails,
                   lastSend, schedVars>>

\* match get_round(&rpc, snapshot.board.round_id).await: the fetch fails (a
\* warning, the iteration ends) ...
SchedGetRoundErr ==
    /\ schedPc = "fetch_round"
    /\ log' = log \cup {"round_read_failed"}
    /\ schedPc' = "loop"
    /\ UNCHANGED <<origVars, priceVars, balanceVars, ixVars, submitHist, monitorOnly, snapshot, cycle, dpc, deployResult, jito, subPc, subIx,
                   retry_count, subResult, chanA, attempts, slept, sendFails, bhFails,
                   lastSend, schedVars>>

\* Ok(round) => select_squares(&round, &strategy): the Round of the match arm,
\* the one just fetched.
evaluated_round_cached(snap, fetched_round) == snap.round
evaluated_round(snap, fetched_round) == fetched_round

\* ... or returns a Round: select_squares is evaluated; with a square list
\* the pipeline is called, else the iteration ends.
SchedGetRoundOk ==
    /\ schedPc = "fetch_round"
    /\ \E d \in SchedDeployed :
          LET r == [id |-> snapshot.board.round_id, deployed |-> d] IN
              /\ fresh_round' = r
              /\ selected' = select_squares(evaluated_round(snapshot, r), strategy)
    /\ IF selected'.some
          THEN /\ log' = log \cup {"selected"}
               /\ schedPc' = "deploy"
               /\ cycle' = cycle + 1
               /\ invoked' = [invoked EXCEPT ![snapshot.board.round_id] = @ + 1]
               /\ deployResult' = "none"
          ELSE /\ log' = log \cup {"skip"}
               /\ schedPc' = "loop"
               /\ UNCHANGED <<cycle, invoked, deployResult>>
    /\ UNCHANGED <<origVars, priceVars, balanceVars, ixVars, submitHist, monitorOnly, snapshot, dpc, jito, subPc, subIx,
                   retry_count, subResult, chanA, attempts, slept, sendFails, bhFails,
                   lastSend, strategy, last_round_id, startErr, readFailed>>

\* deploy_with_dual_channel(..).await? returns.
SchedPipeline(result) ==
    /\ schedPc = "deploy"
    /\ dpc = "idle"
    /\ result \in deploy_results(snapshot)
    /\ deployResult' = result
    /\ checkpoint_ix' = IF needs_checkpoint(snapshot)
                            THEN checkpoint(snapshot.miner.round_id) ELSE NoVal
    /\ deploy_ix' = IF result = "Err" THEN NoVal ELSE deploy(deploy_round_id(snapshot))
    /\ UNCHANGED <<instructions, relay_tx>>
    /\ schedPc' = after_pipeline(result)
    /\ log' = log \cup (IF result = "Err" THEN {} ELSE {"wait_next_round"})
    /\ UNCHANGED <<origVars, priceVars, balanceVars, submitHist, monitorOnly, snapshot, cycle, dpc, jito, subPc, subIx,
                   retry_count, subResult, chanA, attempts, slept, sendFails, bhFails,
                   lastSend, schedVars>>

\* tokio::time::sleep(Duration::from_secs(60)), then the 500 ms sleep.
SchedCooldown ==
    /\ schedPc = "cooldown"
    /\ schedPc' = "loop"
    /\ UNCHANGED <<origVars, priceVars, balanceVars, ixVars, submitHist, monitorOnly, snapshot, cycle, dpc, deployResult, jito, log, subPc, subIx,
                   retry_count, subResult, chanA, attempts, slept, sendFails, bhFails,
                   lastSend, schedVars>>

InitScheduler ==
    /\ strategy = DefaultStrategy
    /\ last_round_id = 0
    /\ fresh_round = NoVal
    /\ selected = NoVal
    /\ startErr = "none"
    /\ readFailed = "none"
    /\ invoked = [r \in 1..MaxRound |-> 0]

Init == InitMonitor /\ InitPipeline /\ InitScheduler /\ InitPriceIdle /\ InitBalanceIdle

Next ==
    \/ RemoteTick
    \/ RemoteNewRound
    \/ RemoteMinerDeploys
    \/ RoundRead
    \/ \E e \in Entities : FetchOk(e)
    \/ \E e \in Entities : FetchErr(e)
    \/ \E e \in Entities : Store(e)
    \/ SnapStart
    \/ \E i \in 1..4 : SnapClone(i)
    \/ SnapReturn

Spec == Init /\ [][Next]_vars

\* The submission pipeline, driven by the scheduler loop.
NextPipeline ==
    \/ SchedDeploy
    \/ DeployStart
    \/ SubBlockhashOk
    \/ SubBlockhashErr
    \/ SubSendOk
    \/ \E e \in SendErrors : SubSendErr(e)
    \/ CheckpointReturn
    \/ DeployAReturn
    \/ SchedReturn
    \/ \E c \in 1..MaxCycles : JitoBlockhashOk(c)
    \/ \E c \in 1..MaxCycles : JitoBlockhashErr(c)
    \/ \E c \in 1..MaxCycles :
          \E o \in {"result", "already_processed", "transport_error", "error_response"} :
              JitoSend(c, o)

\* The tasks of the monitor (the remote state at rest) under a fair scheduler
\* and fair locks: a get_snapshot call
\* that can take its next step takes it (tokio polls a ready task), and a
\* refresher waiting for a lock that is free again and again gets it (tokio's
\* Mutex hands the lock to waiters in FIFO order).
NextLocks ==
    \/ RoundRead
    \/ \E e \in Entities : FetchOk(e)
    \/ \E e \in Entities : FetchErr(e)
    \/ \E e \in Entities : Store(e)
    \/ SnapStart
    \/ \E i \in 1..4 : SnapClone(i)
    \/ SnapReturn

SpecFairLocks ==
    /\ Init
    /\ [][NextLocks]_vars
    /\ \A i \in 1..4 : WF_vars(SnapClone(i))
    /\ WF_vars(SnapReturn)
    /\ \A e \in Entities : SF_vars(Store(e))
    /\ SF_vars(RoundRead)

SpecPipeline == Init /\ [][NextPipeline]_vars

\* send_via_jito in the task the current call of deploy_with_dual_channel
\* spawned with `&[deploy_ix]`, with what it sends: the blockhash is fetched,
\* the recipient of the transfer is picked at random, the transaction is
\* built, signed and handed to send_bundle.
RelayTransaction ==
    /\ cycle >= 1
    /\ jito[cycle] = "blockhash"
    /\ jito' = [jito EXCEPT ![cycle] = "send"]
    /\ \E recipient \in JITO_RECIPIENTS : relay_tx' = send_via_jito(recipient, <<deploy_ix>>)
    /\ UNCHANGED <<checkpoint_ix, deploy_ix, instructions>>
    /\ UNCHANGED <<origVars, priceVars, balanceVars, submitHist, schedVars, monitorOnly, snapshot,
                   schedPc, cycle, dpc, deployResult, log, subPc, subIx, retry_count,
                   subResult, chanA, attempts, slept, sendFails, bhFails, lastSend>>

\* The pipeline with the transaction of its relay task: Channel A in full,
\* the relay task up to its call of send_bundle.
NextRelay ==
    \/ SchedDeploy
    \/ DeployStart
    \/ SubBlockhashOk
    \/ SubBlockhashErr
    \/ SubSendOk
    \/ \E e \in SendErrors : SubSendErr(e)
    \/ CheckpointReturn
    \/ DeployAReturn
    \/ SchedReturn
    \/ RelayTransaction

SpecRelay == Init /\ [][NextRelay]_vars

\* The strategy engine alone: select_squares applied to any Round under any
\* strategy.
InitStrategy ==
    /\ InitMonitor
    /\ InitPipeline
    /\ strategy \in SelectionInputs
    /\ fresh_round \in RoundsOf(1)
    /\ selected = NoVal
    /\ last_round_id = 0
    /\ startErr = "none"
    /\ readFailed = "none"
    /\ invoked = [r \in 1..MaxRound |-> 0]
    /\ InitPriceIdle
    /\ InitBalanceIdle

NextStrategy == Select

SpecStrategy == InitStrategy /\ [][NextStrategy]_vars

\* get_price_with_retry alone: one call, for every max_retries up to the
\* bound and every sequence of fetch outcomes.
InitPrice ==
    /\ InitMonitor
    /\ InitPipeline
    /\ InitScheduler
    /\ InitBalanceIdle
    /\ pricePc = "fetch"
    /\ price_max_retries \in 0..MaxPriceRetries
    /\ retries = 0
    /\ priceResult = "none"
    /\ waits = <<>>
    /\ fetches = 0

NextPrice ==
    \/ GetPriceOk
    \/ GetPriceErr
    \/ PriceSleepDone

SpecPrice == InitPrice /\ [][NextPrice]_vars

\* A fetch returns (reqwest reports a result or an error) and a sleep ends:
\* a step of the call that can be taken is taken.
SpecPriceFair == SpecPrice /\ WF_vars(NextPrice)

\* The balance estimate alone: both functions on every pair of accounts.
InitBalance ==
    /\ InitMonitor
    /\ InitPipeline
    /\ InitScheduler
    /\ InitPriceIdle
    /\ bal_treasury \in Treasuries
    /\ bal_miner \in Miners
    /\ balanceResult = NoVal

NextBalance ==
    \/ \E ok \in BOOLEAN : LogBalance(ok)
    \/ \E ok \in BOOLEAN : GetBalance(ok)

SpecBalance == InitBalance /\ [][NextBalance]_vars

\* auto_mine_optimized from its first statement: nothing is read yet, no
\* Monitor exists, no refresher is spawned.
InitSched ==
    /\ remote = [round_id |-> 1, slot |-> 0, miner_round |-> 0]
    /\ board = NoVal
    /\ clock = NoVal
    /\ miner = NoVal
    /\ round = NoVal
    /\ InitOrigIdle
    /\ lock = [e \in Entities |-> "free"]
    /\ refPc = [e \in Entities |-> "unspawned"]
    /\ fetched = [e \in Entities |-> NoVal]
    /\ round_id = 0
    /\ snapPc = 0
    /\ snapshot = [board |-> NoVal, clock |-> NoVal, miner |-> NoVal, round |-> NoVal]
    /\ lastStore = NoVal
    /\ cycleFresh = FALSE
    /\ cycleElapsed = FALSE
    /\ okCycleElapsed = FALSE
    /\ schedPc = "log_balance"
    /\ cycle = 0
    /\ dpc = "idle"
    /\ deployResult = "none"
    /\ jito = [c \in 1..MaxCycles |-> "none"]
    /\ log = {}
    /\ subPc = "idle"
    /\ subIx = "none"
    /\ retry_count = 0
    /\ subResult = "none"
    /\ chanA = [ix \in Ixs |-> "none"]
    /\ attempts = [ix \in Ixs |-> 0]
    /\ slept = 0
    /\ sendFails = 0
    /\ bhFails = 0
    /\ lastSend = "none"
    /\ blockhash = 0
    /\ sentWith = <<>>
    /\ checkpoint_ix = NoVal
    /\ deploy_ix = NoVal
    /\ instructions = <<>>
    /\ relay_tx = NoVal
    /\ strategy \in SchedStrategies
    /\ last_round_id = 0
    /\ fresh_round = NoVal
    /\ selected = NoVal
    /\ startErr = "none"
    /\ readFailed = "none"
    /\ invoked = [r \in 1..MaxRound |-> 0]
    /\ InitPriceIdle
    /\ InitBalanceIdle

NextSched ==
    \/ \E ok \in BOOLEAN : StartBalance(ok)
    \/ \E e \in Entities, ok \in BOOLEAN : InitialRead(e, ok)
    \/ StartAll
    \/ StartPrice
    \/ SchedSnapshot
    \/ SchedPrice
    \/ GetPriceOk
    \/ GetPriceErr
    \/ PriceSleepDone
    \/ SchedGate
    \/ SchedGetRoundErr
    \/ SchedGetRoundOk
    \/ \E result \in {"Ok", "Err"} : SchedPipeline(result)
    \/ SchedCooldown

SpecSched == InitSched /\ [][NextSched]_vars

----------------------------------------------------------------------------
\* The refreshers and the reads of the original program (src/main.rs:
\* update_board_loop, update_miner_loop, update_clock_loop, update_round_loop,
\* on_chain_main)

\* `get_x(..).await.unwrap()`: a failed fetch panics the refresher's task.
OrigFetchErr(e) ==
    /\ refPc[e] = "fetch"
    /\ refPc' = [refPc EXCEPT ![e] = "panicked"]
    /\ UNCHANGED <<origVars, priceVars, balanceVars, ixVars, submitHist, schedVars, pipeVars, remote, board, clock, miner, round, lock, fetched,
                   round_id, snapPc, snapshot, lastStore, cycleFresh, cycleElapsed,
                   okCycleElapsed>>

\* on_chain_main: `let board = board_mutex.lock().await.clone();` and the same
\* for the clock and the miner, each guard dropped with its statement.
OrigOrder == <<"board", "clock", "miner">>
OrigClone(i) ==
    /\ i \in 1..3
    /\ snapPc = i - 1
    /\ lock[OrigOrder[i]] = "free"
    /\ snapshot' = [snapshot EXCEPT ![OrigOrder[i]] = Cache(OrigOrder[i])]
    /\ snapPc' = i % 3
    /\ UNCHANGED <<origVars, priceVars, balanceVars, ixVars, submitHist, schedVars, pipeVars, remote, board, clock, miner, round, lock, refPc,
                   fetched, round_id, lastStore, cycleFresh, cycleElapsed, okCycleElapsed>>

NextOriginal ==
    \/ RemoteTick
    \/ RemoteNewRound
    \/ RemoteMinerDeploys
    \/ RoundRead
    \/ \E e \in Entities : FetchOk(e)
    \/ \E e \in Entities : OrigFetchErr(e)
    \/ \E e \in Entities : Store(e)
    \/ \E i \in 1..3 : OrigClone(i)

SpecOriginal == Init /\ [][NextOriginal]_vars

\* The refreshers of the original program while the remote round changes,
\* under a fair scheduler and a network whose fetches succeed in the end: a
\* refresher that fetches again and again gets an answer at some time, and a
\* refresher that has a value stores it.
NextOriginalRefresh ==
    \/ RemoteNewRound
    \/ RoundRead
    \/ \E e \in Entities : FetchOk(e)
    \/ \E e \in Entities : OrigFetchErr(e)
    \/ \E e \in Entities : Store(e)

SpecOriginalFair ==
    /\ Init
    /\ [][NextOriginalRefresh]_vars
    /\ \A e \in Entities : SF_vars(FetchOk(e))
    /\ \A e \in Entities : SF_vars(Store(e))
    /\ SF_vars(RoundRead)

----------------------------------------------------------------------------
\* The scheduler loop of the original program (src/main.rs: on_chain_main;
\* src/utils.rs: simulate_transaction, submit_transaction_with_ixs,
\* send_ix_use_jito)

\* get_ore_refined_ix(signer, round_id, .., req_id) and claim_sol(signer)
get_ore_refined_ix(id, req) == [program |-> "ore_refined", round_id |-> id, req_id |-> req]
claim_sol == [program |-> "claim_sol"]

\* u64::saturating_sub
saturating_sub(a, b) == IF a > b THEN a - b ELSE 0

\* (units_consumed * 11 / 10).max(200_000)
padded_units(units) == IF (units * 11) \div 10 > 200000 THEN (units * 11) \div 10 ELSE 200000

\* submit_transaction_with_ixs of the original program: the instructions of
\* the transaction it sends (no retry: both awaits end in `?`).
orig_submit_transaction(insts, units) ==
    <<set_compute_unit_limit((units * 11) \div 10), set_compute_unit_price(20000)>> \o insts

\* if slot_left > args.remaining_slots as u64 { continue; }
too_early(left, a) == left > a.remaining_slots

\* if slot_left > 1 { .. }
worth_sending_at_one(left) == left >= 1
worth_sending(left) == left > 1

\* What the clones of board, clock and miner at the top of an iteration can
\* hold, the command lines, and the units a simulation can report.
OrigClones ==
    { [board |-> [round_id |-> b, end_slot |-> b * RoundLen],
       clock |-> [slot |-> t],
       miner |-> [round_id |-> m],
       round |-> NoVal] : b \in 1..MaxRound, t \in 0..(MaxSlot + 1), m \in 0..MaxRound }
OrigArgs == { [remaining_slots |-> n] : n \in 0..(MaxRound * RoundLen + 1) }
SimulatedUnits == {0, 300000}

\* What an iteration records starts empty.
NewIteration ==
    /\ simulate_result' = "none"
    /\ units_consumed' = 0
    /\ submitted' = NoVal
    /\ spawned' = FALSE

\* One iteration up to its first network call after the price: req_id, the
\* sleep, the three clones, get_price (twice on a new round), slot_left, the
\* `continue` of an early iteration, the three instructions.
OrigIterate ==
    /\ origPc = "loop"
    /\ cycle < MaxCycles
    /\ cycle' = cycle + 1
    /\ NewIteration
    /\ req_id' = (req_id + 1) % 100
    /\ \E clones \in OrigClones, price_ok \in BOOLEAN, refined_ok \in BOOLEAN :
          LET left == saturating_sub(clones.board.end_slot, clones.clock.slot) IN
          /\ clones.board.round_id >= last_round_id
          /\ snapshot' = clones
          /\ IF ~price_ok
                THEN /\ origPc' = "exit"
                     /\ origResult' = "get_price"
                     /\ UNCHANGED <<last_round_id, slot_left, ixs>>
                ELSE /\ last_round_id' = clones.board.round_id
                     /\ slot_left' = left
                     /\ IF too_early(left, args)
                           THEN /\ origPc' = "loop"
                                /\ ixs' = <<>>
                                /\ UNCHANGED origResult
                           ELSE IF ~refined_ok
                           THEN /\ origPc' = "exit"
                                /\ origResult' = "get_ore_refined_ix"
                                /\ ixs' = <<>>
                           ELSE /\ ixs' = <<checkpoint(clones.miner.round_id),
                                            get_ore_refined_ix(clones.board.round_id, req_id'),
                                            claim_sol>>
                                /\ origPc' = IF worth_sending(left) THEN "simulate" ELSE "loop"
                                /\ UNCHANGED origResult
    /\ UNCHANGED <<args, relay_tasks>>
    /\ UNCHANGED <<priceVars, balanceVars, ixVars, submitHist, monitorOnly, schedPc, dpc,
                   deployResult, jito, log, subPc, subIx, retry_count, subResult, chanA,
                   attempts, slept, sendFails, bhFails, lastSend, strategy, fresh_round,
                   selected, startErr, readFailed, invoked>>

\* simulate_transaction(..).await?: the call fails, or reports an execution
\* error (logged, `continue`), or reports none.
OrigSimulate(outcome, units) ==
    /\ origPc = "simulate"
    /\ IF outcome = "transport_error"
          THEN /\ origPc' = "exit"
               /\ origResult' = "simulate_transaction"
               /\ UNCHANGED <<simulate_result, units_consumed, log>>
          ELSE /\ simulate_result' = outcome
               /\ units_consumed' = padded_units(units)
               /\ origPc' = IF outcome = "err" THEN "loop" ELSE "submit"
               /\ log' = log \cup (IF outcome = "err" THEN {"simulate_failed"} ELSE {})
               /\ UNCHANGED origResult
    /\ UNCHANGED <<args, req_id, slot_left, ixs, relay_tasks, submitted, spawned>>
    /\ UNCHANGED <<priceVars, balanceVars, ixVars, submitHist, monitorOnly, snapshot, schedVars,
                   schedPc, cycle, dpc, deployResult, jito, subPc, subIx, retry_count,
                   subResult, chanA, attempts, slept, sendFails, bhFails, lastSend>>

\* submit_transaction_with_ixs(..).await? on Channel A, then the relay task
\* is spawned with a clone of the same instructions.
OrigSubmit(outcome) ==
    /\ origPc = "submit"
    /\ submitted' = IF outcome = "blockhash_error" THEN NoVal
                     ELSE orig_submit_transaction(ixs, units_consumed)
    /\ IF outcome = "Ok"
          THEN /\ log' = log \cup {"tx_sent"}
               /\ req_id' = req_id + 1
               /\ relay_tasks' = relay_tasks + 1
               /\ spawned' = TRUE
               /\ origPc' = "loop"
               /\ UNCHANGED origResult
          ELSE /\ origPc' = "exit"
               /\ origResult' = "submit_transaction_with_ixs"
               /\ UNCHANGED <<log, req_id, relay_tasks, spawned>>
    /\ UNCHANGED <<args, slot_left, ixs, simulate_result, units_consumed>>
    /\ UNCHANGED <<priceVars, balanceVars, ixVars, submitHist, monitorOnly, snapshot, schedVars,
                   schedPc, cycle, dpc, deployResult, jito, subPc, subIx, retry_count,
                   subResult, chanA, attempts, slept, sendFails, bhFails, lastSend>>

\* A spawned send_ix_use_jito task ends, having sent its bundle or not;
\* `let result = ..` is never looked at and nothing is logged.
OrigRelay ==
    /\ relay_tasks > 0
    /\ relay_tasks' = relay_tasks - 1
    /\ UNCHANGED <<origPc, args, req_id, slot_left, ixs, simulate_result, units_consumed,
                   origResult, submitted, spawned>>
    /\ UNCHANGED <<priceVars, balanceVars, ixVars, submitHist, monitorOnly, snapshot, schedVars,
                   pipeVars>>

\* on_chain_main after its startup reads, for every command line.
InitOrigSched ==
    /\ InitMonitor
    /\ schedPc = "loop"
    /\ cycle = 0
    /\ dpc = "idle"
    /\ deployResult = "none"
    /\ jito = [c \in 1..MaxCycles |-> "none"]
    /\ log = {}
    /\ subPc = "idle"
    /\ subIx = "none"
    /\ retry_count = 0
    /\ subResult = "none"
    /\ chanA = [ix \in Ixs |-> "none"]
    /\ attempts = [ix \in Ixs |-> 0]
    /\ slept = 0
    /\ sendFails = 0
    /\ bhFails = 0
    /\ lastSend = "none"
    /\ blockhash = 0
    /\ sentWith = <<>>
    /\ checkpoint_ix = NoVal
    /\ deploy_ix = NoVal
    /\ instructions = <<>>
    /\ relay_tx = NoVal
    /\ InitScheduler
    /\ InitPriceIdle
    /\ InitBalanceIdle
    /\ origPc = "loop"
    /\ args \in OrigArgs
    /\ req_id = 0
    /\ slot_left = 0
    /\ ixs = <<>>
    /\ simulate_result = "none"
    /\ units_consumed = 0
    /\ origResult = "none"
    /\ relay_tasks = 0
    /\ submitted = NoVal
    /\ spawned = FALSE

NextOrigSched ==
    \/ OrigIterate
    \/ \E o \in {"ok", "err", "transport_error"}, u \in SimulatedUnits : OrigSimulate(o, u)
    \/ \E o \in {"Ok", "blockhash_error", "send_error"} : OrigSubmit(o)
    \/ OrigRelay

SpecOrigSched == InitOrigSched /\ [][NextOrigSched]_vars

----------------------------------------------------------------------------
\* Claims about the monitor (checked under Spec)

\* C1: the snapshot get_snapshot returns is never torn: at the instant the
\* struct is complete (before the call returns) the board, clock, miner and
\* round caches hold exactly the four values of the snapshot.
C1_SnapshotNotTorn ==
    snapPc = 5 =>
        snapshot = [board |-> board, clock |-> clock, miner |-> miner, round |-> round]

\* A snapshot completes while a refresher holds a new value it could not
\* store yet, and the remote has moved on since the board was cached.
C1_Witness ==
    /\ snapPc = 5
    /\ \E e \in Entities : refPc[e] = "store" /\ fetched[e] # Cache(e)
    /\ snapshot.board.round_id > 1

C3_StaleRoundDiscarded ==
    lastStore # NoVal => ~(lastStore.board_round_id > lastStore.read)

----------------------------------------------------------------------------
\* Claims about the submission pipeline (checked under SpecPipeline)

RetryableClasses == {"blockhash", "timeout", "connection"}

\* The deploy instruction has been submitted, or is being submitted, on some
\* channel in this cycle.
DeployActivity ==
    \/ attempts["deploy"] > 0
    \/ chanA["deploy"] # "none"
    \/ (cycle >= 1 /\ jito[cycle] # "none")

\* C4: when the snapshot's miner.round_id is below its board.round_id, the
\* checkpoint submission has started and finished (all its retries included)
\* before the deploy instruction is submitted on any channel; the two never
\* overlap.
C4_CheckpointBeforeDeploy ==
    (snapshot.miner.round_id < snapshot.board.round_id /\ DeployActivity) =>
        /\ chanA["checkpoint"] \in {"Ok", "Err"}
        /\ attempts["checkpoint"] > 0

\* A checkpoint that needed a retry finished, and the deploy instruction was
\* then sent.
C4_Witness ==
    /\ snapshot.miner.round_id < snapshot.board.round_id
    /\ attempts["checkpoint"] > 1
    /\ chanA["checkpoint"] = "Ok"
    /\ attempts["deploy"] > 0

\* C5: if the checkpoint submission fails, deploy_with_dual_channel returns
\* the error to its caller and no deploy instruction is submitted in that
\* cycle, neither on Channel A nor by a relay task.
C5_CheckpointFailureAborts ==
    chanA["checkpoint"] = "Err" =>
        /\ attempts["deploy"] = 0
        /\ chanA["deploy"] = "none"
        /\ jito[cycle] = "none"
        /\ (dpc \in {"ret", "idle"} => deployResult = "Err")
        /\ (dpc = "idle" => schedPc = "exit")

C5_Witness ==
    /\ chanA["checkpoint"] = "Err"
    /\ deployResult = "Err"
    /\ schedPc = "exit"

\* C6: a failed send is retried only when the error is of a retryable class
\* and fewer than max_retries retries were used, after a wait of
\* 2^(attempt-1) seconds for retry number attempt; any other failed send
\* returns the error at once, without a wait and without another attempt.
C6_RetryPolicy ==
    [][ (subPc = "send" /\ sendFails' = sendFails + 1) =>
            IF lastSend' \in RetryableClasses /\ retry_count < max_retries
               THEN /\ retry_count' = retry_count + 1
                    /\ slept' = slept + 2 ^ (retry_count' - 1)
                    /\ subPc' = "blockhash"
                    /\ subResult' = "none"
               ELSE /\ retry_count' = retry_count
                    /\ slept' = slept
                    /\ subPc' = "ret"
                    /\ subResult' = "Err" ]_vars

\* Two retryable failures were retried after 1 s and 2 s, then a rejected
\* send returned the error.
C6_Witness ==
    /\ subPc = "ret"
    /\ subResult = "Err"
    /\ lastSend = "rejected"
    /\ sendFails = 3
    /\ retry_count = 2
    /\ slept = 3

RECURSIVE SumBackoff(_)
SumBackoff(k) == IF k = 0 THEN 0 ELSE 2 ^ (k - 1) + SumBackoff(k - 1)

\* C7: with a transport whose first k < max_retries send attempts fail
\* (retryably, blockhash fetches succeeding) and whose next attempt succeeds,
\* submit_transaction_with_ixs returns success after sleeping the sum of
\* 2^(i-1) for i in 1..k seconds; it never gives up on such a transport.
C7_BackoffSum ==
    (subPc = "ret" /\ bhFails = 0) =>
        /\ (lastSend = "ok" /\ sendFails < max_retries) =>
               (subResult = "Ok" /\ slept = SumBackoff(sendFails))
        /\ (subResult = "Err" /\ lastSend \in RetryableClasses) =>
               sendFails >= max_retries

C7_Witness ==
    /\ subPc = "ret"
    /\ subResult = "Ok"
    /\ bhFails = 0
    /\ sendFails = 3
    /\ slept = 7

\* C8: deploy_with_dual_channel reports success only if the Channel A
\* submission of the deploy instruction succeeded.
C8_ChannelAFailureSurfaced ==
    deployResult = "Ok" => chanA["deploy"] = "Ok"

\* C9: the relay task is started without waiting for the Channel A submission
\* of the deploy instruction: while Channel A is still retrying after a failed
\* attempt, the relay task of the cycle has been started.
C9_RelayStartedConcurrently ==
    (chanA["deploy"] = "running" /\ attempts["deploy"] > 0) => jito[cycle] # "none"

\* C10: a failure of the relay task (blockhash fetch, transport error, error
\* response) changes neither the result deploy_with_dual_channel returned nor
\* the position of the scheduler or of the pipeline; it writes a log entry.
C10_RelayFailureOnlyLogged ==
    [][ \A c \in 1..MaxCycles :
            (jito[c] \in JitoRunning /\ jito'[c] \in JitoFailures) =>
                /\ deployResult' = deployResult
                /\ schedPc' = schedPc
                /\ dpc' = dpc
                /\ subPc' = subPc
                /\ log' \cap {"jito_failed", "bundle_failed"} # {} ]_vars

\* Relay tasks failed in each of the three ways while the pipeline had
\* returned Ok.
C10_Witness ==
    /\ deployResult = "Ok"
    /\ \E c \in 1..MaxCycles : jito[c] = "blockhash_failed"
    /\ \E c \in 1..MaxCycles : jito[c] \in {"transport_error", "error_response"}
    /\ "bundle_failed" \in log

----------------------------------------------------------------------------
\* Claims about the scheduler (checked under SpecSched and SpecPipeline)

\* C11: the scheduler does not resubmit for the same round: the pipeline is
\* invoked at most once for each board round_id.
C11_OncePerRound ==
    \A r \in 1..MaxRound : invoked[r] <= 1

\* C12: the gate opens in an iteration exactly when time_remaining <=
\* start_before_seconds or slots_remaining <= remaining_slots, with
\* slots_remaining = max(end_slot - slot, 0) and 0.4 s a slot; when neither
\* holds the iteration ends without a Round fetch, a strategy evaluation or a
\* submission.
C12_GateCondition ==
    [][ schedPc = "gate" =>
            LET slots == IF snapshot.board.end_slot > snapshot.clock.slot
                            THEN snapshot.board.end_slot - snapshot.clock.slot
                            ELSE 0
                open == \/ 4 * slots <= strategy.start_before_seconds
                        \/ slots <= strategy.remaining_slots
            IN  /\ (schedPc' = "fetch_round") <=> open
                /\ ~open => /\ schedPc' = "loop"
                            /\ fresh_round' = NoVal
                            /\ selected' = NoVal
                            /\ cycle' = cycle
                            /\ invoked' = invoked ]_vars

\* The gate opened on the time alone: more slots remain than the slot
\* threshold allows.
C12_Witness ==
    /\ schedPc = "fetch_round"
    /\ snapshot.board.end_slot - snapshot.clock.slot > strategy.remaining_slots
    /\ 4 * (snapshot.board.end_slot - snapshot.clock.slot) <= strategy.start_before_seconds

\* C13: after the gate opened, a square list is followed by the pipeline call
\* and the iteration goes back to the top of the loop only through the
\* cooldown; no action goes back to the top of the loop at once, without the
\* pipeline and without the cooldown.
C13_CooldownAfterSubmission ==
    [][ /\ (schedPc = "fetch_round" /\ selected' # NoVal /\ selected'.some) =>
               (schedPc' = "deploy" /\ cycle' = cycle + 1)
        /\ (schedPc = "fetch_round" /\ selected' # NoVal /\ ~selected'.some) =>
               (schedPc' = "loop" /\ cycle' = cycle)
        /\ (schedPc' = "cooldown" /\ schedPc # "cooldown") =>
               (schedPc = "deploy" /\ selected.some)
        /\ (schedPc' = "loop" /\ schedPc \in {"fetch_round", "deploy", "cooldown"}
              /\ selected' # NoVal /\ selected'.some) =>
               schedPc = "cooldown" ]_vars

\* The pipeline returned for a selected square list and the cooldown is
\* being slept.
C13_Witness ==
    /\ schedPc = "cooldown"
    /\ selected # NoVal
    /\ Len(selected.squares) = 1
    /\ deployResult = "Ok"
    /\ "wait_next_round" \in log

\* C14: a failure of the submission pipeline abandons only the current
\* cycle: once startup succeeded, the scheduler loop is never left.
C14_LoopKeepsRunning ==
    startErr = "none" => schedPc # "exit"

\* C18: if one of the four initial reads fails, auto_mine_optimized returns
\* that error: no Monitor exists, no refresher is spawned, the loop never ran.
C18_InitialReadFailureIsFatal ==
    readFailed # "none" =>
        /\ schedPc = "exit"
        /\ startErr = (CASE readFailed = "board" -> "get_board"
                         [] readFailed = "clock" -> "get_clock"
                         [] readFailed = "miner" -> "get_miner"
                         [] readFailed = "round" -> "get_round")
        /\ board = NoVal /\ clock = NoVal /\ miner = NoVal /\ round = NoVal
        /\ \A e \in Entities : refPc[e] = "unspawned"
        /\ snapshot.board = NoVal
        /\ last_round_id = 0
        /\ cycle = 0

\* The last of the four reads failed after the first three succeeded.
C18_Witness ==
    /\ readFailed = "round"
    /\ fetched["board"] # NoVal
    /\ fetched["miner"] # NoVal
    /\ schedPc = "exit"

----------------------------------------------------------------------------
\* Claims about the refreshers and the locks (checked under Spec and
\* SpecOriginal)

\* C15: a step of one refresher, its failed fetch included, leaves the
\* position of every other refresher, every lock and the reader (the
\* scheduler's get_snapshot call) as they were.
C15_FetchErrorIsolated ==
    [][ refPc' # refPc =>
            /\ \E e \in Entities : \A o \in Entities \ {e} : refPc'[o] = refPc[o]
            /\ lock' = lock
            /\ snapPc' = snapPc
            /\ snapshot' = snapshot
            /\ schedPc' = schedPc ]_vars

\* The Round fetch of a full round-refresh iteration failed; the clock
\* refresher stored a later slot and a snapshot with it was assembled.
C15_Witness ==
    /\ cycleElapsed
    /\ ~okCycleElapsed
    /\ snapPc = 5
    /\ snapshot.clock.slot = 1
    /\ refPc["board"] = "store"

\* C16: a refresher whose fetch failed is still in its loop: it fetches again
\* on a later tick.
C16_RefresherRetries ==
    \A e \in Entities : refPc[e] \in {"read", "fetch", "store"}

\* C17: no task holds two entity locks at the same time.
C17_OneLockAtATime ==
    Cardinality({e \in Entities : lock[e] # "free"}) <= 1

----------------------------------------------------------------------------
\* Claims about select_squares (checked under SpecStrategy)

\* C19: with a fixed threshold, every index select_squares returns has a
\* deployed amount strictly below the threshold, the list has
\* min(pick_squares, number of candidates) entries, and it is in ascending
\* order of the deployed amount.
C19_FixedThresholdSelection ==
    (selected # NoVal /\ strategy.kind = "Threshold" /\ selected.some) =>
        LET squares == selected.squares
            count == Cardinality({i \in 1..NumSquares :
                        1000 * fresh_round.deployed[i] < strategy.threshold_sol})
        IN  /\ \A k \in DOMAIN squares :
                   1000 * fresh_round.deployed[squares[k] + 1] < strategy.threshold_sol
            /\ Len(squares) = IF strategy.pick_squares < count
                                 THEN strategy.pick_squares ELSE count
            /\ \A j, k \in DOMAIN squares :
                   j < k => fresh_round.deployed[squares[j] + 1]
                               <= fresh_round.deployed[squares[k] + 1]

\* Fewer candidates than pick_squares, of two different amounts: all of them
\* are returned, the smaller amount first.
C19_Witness ==
    /\ selected # NoVal
    /\ strategy.kind = "Threshold"
    /\ selected.some
    /\ Len(selected.squares) = 2
    /\ strategy.pick_squares > 2
    /\ fresh_round.deployed[selected.squares[1] + 1]
          < fresh_round.deployed[selected.squares[2] + 1]
    /\ selected.squares[1] > selected.squares[2]

\* C20: for both algorithms select_squares returns a list exactly when the
\* number of squares strictly below the threshold (the fixed one, or 0.036 of
\* the total deployed less 0.005 SOL) is at least min_squares.
C20_MinSquaresDecides ==
    selected # NoVal =>
        LET threshold == IF strategy.kind = "Threshold"
                            THEN strategy.threshold_sol
                            ELSE 36 * sum(fresh_round.deployed) - 5000
            count == Cardinality({i \in 1..NumSquares :
                        1000 * fresh_round.deployed[i] < threshold})
        IN  selected.some <=> count >= strategy.min_squares

\* The dynamic threshold leaves exactly min_squares candidates.
C20_Witness ==
    /\ selected # NoVal
    /\ strategy.kind = "Optimized"
    /\ selected.some
    /\ strategy.min_squares = 2
    /\ strategy.pick_squares = NumSquares
    /\ Len(selected.squares) = 2

\* C21: candidates with equal deployed amounts keep the order of their square
\* index (the sort is stable); when all candidates are tied the result is the
\* pick_squares lowest candidate indices in ascending order.
C21_TieBreakByIndex ==
    (selected # NoVal /\ selected.some) =>
        LET squares == selected.squares
            threshold == IF strategy.kind = "Threshold"
                            THEN strategy.threshold_sol
                            ELSE 36 * sum(fresh_round.deployed) - 5000
            cands == {i \in 0..(NumSquares - 1) :
                        1000 * fresh_round.deployed[i + 1] < threshold}
            tied == \A i, j \in cands :
                        fresh_round.deployed[i + 1] = fresh_round.deployed[j + 1]
        IN  /\ \A j, k \in DOMAIN squares :
                   (j < k /\ fresh_round.deployed[squares[j] + 1]
                                = fresh_round.deployed[squares[k] + 1])
                       => squares[j] < squares[k]
            /\ tied =>
                   /\ \A k \in DOMAIN squares : squares[k] \in cands
                   /\ \A j, k \in DOMAIN squares : j < k => squares[j] < squares[k]
                   /\ \A c \in cands : \A k \in DOMAIN squares :
                          c < squares[k] => \E j \in DOMAIN squares : squares[j] = c

\* Three tied candidates, two of them picked: squares 0 and 1, in that order.
C21_Witness ==
    /\ selected # NoVal
    /\ selected.some
    /\ strategy.pick_squares = 2
    /\ \A i \in 1..NumSquares : fresh_round.deployed[i] = 5
    /\ selected.squares = <<0, 1>>

\* C22: for the dynamic-optimized algorithm the threshold is
\* total * coefficient + offset with the coefficient and the offset of the
\* strategy configuration, and the candidates are exactly the squares strictly
\* below it: the selection made for a configuration is the one its own
\* coefficient and offset give.
C22_ConfiguredThreshold ==
    \A p \in DynamicOptimizedConfigs :
        (/\ selected # NoVal
         /\ strategy.kind = "Optimized"
         /\ p.min_squares = strategy.min_squares
         /\ p.pick_squares = strategy.pick_squares) =>
            LET threshold == (1000 * sum(fresh_round.deployed) * p.dynamic_coefficient) \div 1000
                                + p.dynamic_offset
                cands == {i \in 0..(NumSquares - 1) :
                            1000 * fresh_round.deployed[i + 1] < threshold}
            IN  /\ selected.some <=> Cardinality(cands) >= p.min_squares
                /\ selected.some =>
                       /\ \A k \in DOMAIN selected.squares : selected.squares[k] \in cands
                       /\ Len(selected.squares) =
                              IF p.pick_squares < Cardinality(cands)
                                 THEN p.pick_squares ELSE Cardinality(cands)

\* C23: for the dynamic-optimized algorithm, when the dynamic threshold is not
\* positive select_squares returns no action whatever min_squares is, never a
\* list (not even an empty one).
C23_NonPositiveThresholdNoAction ==
    (/\ selected # NoVal
     /\ strategy.kind = "Optimized"
     /\ 36 * sum(fresh_round.deployed) - 5000 <= 0) => ~selected.some

\* C24: the strategy select_squares is evaluated with has passed the
\* validation of the configuration: 1 <= min_squares <= 25,
\* 1 <= pick_squares <= min_squares, and a positive threshold for the fixed
\* threshold algorithm.
C24_StrategyValidated ==
    selected # NoVal =>
        /\ validate(strategy)
        /\ 1 <= strategy.min_squares /\ strategy.min_squares <= 25
        /\ 1 <= strategy.pick_squares /\ strategy.pick_squares <= strategy.min_squares
        /\ strategy.kind = "Threshold" => strategy.threshold_sol > 0

\* C25: get_price_with_retry returns Ok on the first fetch that succeeds (all
\* the fetches before it failed, none is made after it); the n-th sleep is
\* of 2^(n-1) seconds and follows the n-th failed fetch; it returns Err only
\* when max_retries retries were used and the fetch after the last of them
\* failed too; a call never makes more than max_retries + 1 fetches nor more
\* than max_retries sleeps, and every call returns.
C25_PriceRetryTerminates ==
    /\ [](/\ fetches <= price_max_retries + 1
          /\ Len(waits) <= price_max_retries
          /\ Len(waits) = retries
          /\ \A n \in DOMAIN waits : waits[n] = 2 ^ (n - 1)
          /\ pricePc = "sleep" => fetches = Len(waits)
          /\ pricePc = "fetch" => fetches = Len(waits)
          /\ (pricePc = "ret" /\ priceResult = "Ok") => fetches = Len(waits) + 1
          /\ (pricePc = "ret" /\ priceResult = "Err") =>
                 /\ Len(waits) = price_max_retries
                 /\ fetches = price_max_retries + 1
          /\ pricePc = "ret" <=> priceResult # "none")
    /\ <>(pricePc = "ret")

\* Three failed fetches, sleeps of 1, 2 and 4 seconds, and the fourth fetch
\* succeeds with retries to spare.
C25_Witness ==
    /\ pricePc = "ret"
    /\ priceResult = "Ok"
    /\ waits = <<1, 2, 4>>
    /\ fetches = 4
    /\ price_max_retries > 3

\* C28: a negative accumulated = treasury.miner_rewards_factor -
\* miner.rewards_factor is reported to the caller as an error, never skipped;
\* a non-negative one adds accumulated * miner.rewards_ore to the estimate.
C28_NegativeAccumulatedIsError ==
    balanceResult # NoVal =>
        LET accumulated == bal_treasury.miner_rewards_factor - bal_miner.rewards_factor IN
            /\ accumulated < 0 => balanceResult.result = "Err"
            /\ (accumulated >= 0 /\ balanceResult.result = "Ok") =>
                   balanceResult.refined_ore
                       = bal_miner.refined_ore + (accumulated * bal_miner.rewards_ore) \div 2

\* C26: a price fetch that failed after its retries never stops the
\* scheduler, at startup or on a round detection: auto_mine_optimized has not
\* returned because of it.
C26_PriceFailureNeverStops ==
    ~(schedPc = "exit" /\ pricePc = "ret" /\ priceResult = "Err")

\* C29: the gate evaluation of an iteration does not wait for the price
\* refresh of a round detection: the loop is never held before a gate check
\* that would open, while the refresh sleeps in its backoff.
C29_GateDoesNotWaitForPrice ==
    ~(schedPc = "price" /\ pricePc = "sleep" /\ gate_open(snapshot, strategy))

\* C30: the strategy is evaluated on the Round fetched after the gate opened,
\* for the snapshot's board.round_id, and its result is the one that Round
\* gives, not the one the snapshot's cached Round gives; when the fetch fails
\* the strategy is not evaluated, the pipeline is not called and the loop
\* goes on.
C30_FreshRoundEvaluated ==
    /\ selected # NoVal =>
           /\ fresh_round # NoVal
           /\ fresh_round.id = snapshot.board.round_id
           /\ "gate_open" \in log
           /\ LET threshold == IF strategy.kind = "Threshold"
                                   THEN strategy.threshold_sol
                                   ELSE 36 * sum(fresh_round.deployed) - 5000
                   count == Cardinality({i \in 1..NumSquares :
                               1000 * fresh_round.deployed[i] < threshold})
               IN  selected.some <=> count >= strategy.min_squares
    /\ "round_read_failed" \in log =>
           /\ selected = NoVal
           /\ fresh_round = NoVal
           /\ "selected" \notin log
           /\ schedPc = "loop"
           /\ dpc = "idle"

\* The fetched Round has one candidate where the cached one has three:
\* min_squares = 2 gives no action.
C30_Witness ==
    /\ selected # NoVal
    /\ ~selected.some
    /\ strategy.kind = "Threshold"
    /\ strategy.min_squares = 2
    /\ fresh_round.deployed # snapshot.round.deployed
    /\ select_squares(snapshot.round, strategy).some

\* C27: send_bundle takes a relay response with a result as success, an error
\* whose text contains "bundle contains an already processed transaction" as
\* equivalent to success, and every other relay error as a failure: each of
\* the three gets its own log entry and no other.
C27_BundleClassification ==
    [][ \A c \in 1..MaxCycles :
            (jito[c] = "send" /\ jito'[c] # "send") =>
                LET expected == CASE jito'[c] = "result" -> "bundle_sent"
                                  [] jito'[c] = "already_processed" -> "bundle_already_processed"
                                  [] OTHER -> "bundle_failed"
                IN  /\ expected \in log'
                    /\ log' \ log \subseteq {expected}
                    /\ deployResult' = deployResult ]_vars

\* The relay answered with the already-processed error: that entry is
\* logged, neither the success entry nor the failure entry.
C27_Witness ==
    /\ \E c \in 1..MaxCycles : jito[c] = "already_processed"
    /\ "bundle_already_processed" \in log
    /\ "bundle_sent" \notin log
    /\ "bundle_failed" \notin log

----------------------------------------------------------------------------
\* Claims about the retry counter of submit_transaction_with_ixs (checked
\* under SpecPipeline)

\* C37: one call of submit_transaction_with_ixs terminates: blockhash-fetch
\* failures and send failures share the one counter retry_count, which never
\* exceeds max_retries = 4; the call makes at most 5 failing steps in total
\* (each but the last one counted by retry_count), has slept the backoff of
\* the retries counted so far, at most 1 + 2 + 4 + 8 seconds, and every wait
\* was computed with an exponent retry_count - 1 >= 0.
C37_SubmitTerminates ==
    subPc # "idle" =>
        /\ retry_count \in 0..max_retries
        /\ sendFails + bhFails <= 5
        /\ IF subPc = "ret" /\ subResult = "Err"
              THEN sendFails + bhFails = retry_count + 1
              ELSE sendFails + bhFails = retry_count
        /\ slept = SumBackoff(retry_count)
        /\ slept <= 1 + 2 + 4 + 8
        /\ (slept > 0 => retry_count - 1 >= 0)

\* A call gave up after five failing steps of both kinds, having slept
\* 1 + 2 + 4 + 8 seconds.
C37_Witness ==
    /\ subPc = "ret"
    /\ subResult = "Err"
    /\ retry_count = max_retries
    /\ bhFails >= 1
    /\ sendFails >= 1
    /\ sendFails + bhFails = 5
    /\ slept = 15

\* C38: every Channel A send attempt of a call uses a blockhash fetched after
\* the previous failed attempt of that call: the blockhashes of the call's
\* send attempts are all different (each from a later fetch than the one
\* before), and a call about to send again holds a blockhash no earlier
\* attempt used.
C38_FreshBlockhashPerAttempt ==
    /\ \A i \in 1..Len(sentWith) : \A j \in 1..Len(sentWith) :
           i < j => sentWith[i] < sentWith[j]
    /\ (subPc = "send" /\ sentWith # <<>>) => blockhash > sentWith[Len(sentWith)]

\* A send is about to be retried for the second time.
C38_Witness ==
    /\ subPc = "send"
    /\ Len(sentWith) = 2
    /\ sendFails = 2
    /\ blockhash = 3

----------------------------------------------------------------------------
\* Claims about the instructions of an iteration (checked under SpecSched)

\* C31: within one scheduler iteration every decision reads the snapshot
\* taken at the start of the iteration, whatever the live caches hold: the
\* gate that let the iteration pass was open for the snapshot, the Round
\* fetched after the gate is the Round of the snapshot's board.round_id, a
\* checkpoint instruction exists exactly when the snapshot's miner.round_id
\* is below its board.round_id and carries the snapshot's miner.round_id, and
\* the deploy instruction carries the snapshot's board.round_id.
C31_OneSnapshotPerIteration ==
    /\ schedPc = "fetch_round" => gate_open(snapshot, strategy)
    /\ fresh_round # NoVal => fresh_round.id = snapshot.board.round_id
    /\ checkpoint_ix # NoVal =>
           /\ snapshot.miner.round_id < snapshot.board.round_id
           /\ checkpoint_ix = checkpoint(snapshot.miner.round_id)
    /\ deploy_ix # NoVal =>
           /\ deploy_ix = deploy(snapshot.board.round_id)
           /\ checkpoint_ix # NoVal <=> snapshot.miner.round_id < snapshot.board.round_id

\* The pipeline ran with a checkpoint on a snapshot whose board, clock and
\* miner all differ from what the live caches hold.
C31_Witness ==
    /\ deploy_ix # NoVal
    /\ checkpoint_ix # NoVal
    /\ fresh_round # NoVal
    /\ snapshot.board.round_id # board.round_id
    /\ snapshot.miner.round_id # miner.round_id
    /\ snapshot.clock.slot # clock.slot

----------------------------------------------------------------------------
\* Claims about the original scheduler loop (checked under SpecOrigSched)

\* C40: in on_chain_main a transaction is submitted in an iteration (sent on
\* Channel A, or a relay task spawned) only if 1 < slot_left <=
\* remaining_slots and the simulation of that iteration reported no error;
\* an iteration that finds slot_left > remaining_slots, finds slot_left <= 1,
\* or whose simulation reports an error sends nothing on either channel and
\* ends at the top of the loop.
C40_SubmissionGate ==
    cycle >= 1 =>
        /\ (submitted # NoVal \/ spawned) =>
               /\ 1 < slot_left
               /\ slot_left <= args.remaining_slots
               /\ simulate_result = "ok"
        /\ (origResult = "none" /\
              (slot_left > args.remaining_slots \/ slot_left <= 1 \/ simulate_result = "err")) =>
               /\ submitted = NoVal
               /\ ~spawned
               /\ origPc = "loop"

\* An iteration sent on both channels with slot_left = remaining_slots = 2,
\* after an iteration whose relay task is still to send.
C40_Witness ==
    /\ cycle = 2
    /\ submitted # NoVal
    /\ spawned
    /\ slot_left = 2
    /\ args.remaining_slots = 2
    /\ origPc = "loop"

\* C32: a checkpoint is submitted in a cycle exactly when the snapshot's
\* miner.round_id is below its board.round_id, and it targets miner.round_id;
\* when miner.round_id >= board.round_id the transaction submitted carries no
\* checkpoint instruction.
C32_CheckpointOnlyWhenBehind ==
    submitted # NoVal =>
        /\ (\E i \in DOMAIN submitted : submitted[i].program = "checkpoint")
              <=> snapshot.miner.round_id < snapshot.board.round_id
        /\ \A i \in DOMAIN submitted :
              submitted[i].program = "checkpoint" =>
                  submitted[i].round_id = snapshot.miner.round_id

----------------------------------------------------------------------------
\* Claims about the relay transaction (checked under SpecRelay)

\* Positions of the instructions of a program in a transaction.
Positions(tx, program) == { i \in DOMAIN tx : tx[i].program = program }

\* C33: the transaction a relay task sends carries the deploy instruction
\* Channel A was given in that cycle, exactly one transfer, of 5000 lamports,
\* to one of the eight relay recipients and placed before the deploy
\* instruction, and its compute-unit price instruction is set to zero.
C33_RelayTransaction ==
    /\ subIx = "deploy" => instructions = <<deploy_ix>>
    /\ relay_tx # NoVal =>
           /\ Positions(relay_tx, "deploy") # {}
           /\ \A j \in Positions(relay_tx, "deploy") : relay_tx[j] = deploy_ix
           /\ Cardinality(Positions(relay_tx, "transfer")) = 1
           /\ \A i \in Positions(relay_tx, "transfer") :
                  /\ relay_tx[i].lamports = 5000
                  /\ relay_tx[i].to \in 1..8
                  /\ \A j \in Positions(relay_tx, "deploy") : i < j
           /\ Cardinality(Positions(relay_tx, "set_compute_unit_price")) = 1
           /\ \A i \in Positions(relay_tx, "set_compute_unit_price") :
                  relay_tx[i].micro_lamports = 0

\* The relay task sends to the eighth recipient in a cycle that needed a
\* checkpoint and whose Channel A submission of the deploy instruction failed.
C33_Witness ==
    /\ relay_tx # NoVal
    /\ relay_tx[3].to = 8
    /\ chanA["deploy"] = "Err"
    /\ chanA["checkpoint"] = "Ok"
    /\ deploy_ix.round_id = 2

----------------------------------------------------------------------------
\* Claims about the monitor's refreshers (checked under Spec and its fair
\* versions)

\* C34: no error is dropped without a log entry: a failed fetch in a
\* background refresher (as every failed submission on either channel)
\* writes a log entry before the failure is discarded. Stated for the Round
\* refresher, whose failed fetch is the step from "fetch" back to "read".
C34_FailuresLogged ==
    [][ (refPc["round"] = "fetch" /\ refPc'["round"] = "read") => log' # log ]_vars

\* C35: the monitor is free of deadlock: under any interleaving of
\* get_snapshot calls with the four refreshers and fair locks, the only
\* holder of an entity lock a task can wait for is a get_snapshot call, which
\* itself never waits; every get_snapshot call returns, every refresher that
\* has a value to store stores it, and the round refresher gets its read of
\* the board.
C35_NoDeadlock ==
    /\ [](snapPc \in 1..4 => lock[SnapOrder[snapPc]] = "free")
    /\ (snapPc # 0) ~> (snapPc = 0)
    /\ \A e \in Entities : (refPc[e] = "store") ~> (refPc[e] # "store")
    /\ (refPc["round"] = "read") ~> (refPc["round"] # "read")

\* Two refreshers wait to store while a get_snapshot call holds all four
\* locks.
C35_Witness ==
    /\ snapPc = 5
    /\ \A e \in Entities : lock[e] = "snapshot"
    /\ refPc["board"] = "store"
    /\ refPc["round"] = "store"

\* C36: with a remote round_id that never decreases, every snapshot
\* get_snapshot returns holds a Round that was fetched for a round id no
\* greater than the snapshot's board.round_id (and so does the cache at any
\* time).
C36_RoundNotAhead ==
    /\ round.id <= board.round_id
    /\ snapPc = 5 => snapshot.round.id <= snapshot.board.round_id

\* A snapshot holds the board of round 2 and the Round fetched for round 1,
\* while the round refresher is about to store a Round.
C36_Witness ==
    /\ snapPc = 5
    /\ snapshot.board.round_id = 2
    /\ snapshot.round.id = 1
    /\ refPc["round"] = "store"

\* C39: when the remote board's round_id has become R and fetches succeed in
\* the end, then under fair scheduling, unless the remote moves on first, the
\* cached board comes to hold round_id R and the cached Round comes to be the
\* Round fetched for R.
C39_MonitorCatchesUp ==
    \A R \in 1..MaxRound :
        (remote.round_id = R) ~>
            (remote.round_id # R \/ (board.round_id = R /\ round.id = R))

====
